---- MODULE Spec2Model ----
(***************************************************************************)
(* Campaign workflow engine of clento-backend: the step ledger, the four   *)
(* cron tasks, the step executor with its rate-limit and cooldown gates,   *)
(* the successor planner and the reply webhook.                            *)
(*                                                                         *)
(* Time is in milliseconds since local midnight of day 0 (a Monday in the  *)
(* default calendar); execute_after is in seconds, as in the ledger.       *)
(***************************************************************************)
EXTENDS Integers, Sequences, FiniteSets, TLC

\* ------------------------------------------------------------------ bounds
MaxSteps == 5
MaxHours == 3
MaxFaults == 1
MaxCrossFaults == 2
DAILY_LIMIT == 1
WEEKLY_LIMIT == 3
EpochDow == 1
EpochDoy == 5
MaxDelayLen == 3
MaxDelayAmount == 3
MaxLimitDays == 8
MaxLeads == 3
MaxPollEdges == 2
MaxWfNodes == 3
MaxWfEdges == 3

\* --------------------------------------------------------------- time units
HourMs == 60 * 60 * 1000
DayMs == 24 * 60 * 60 * 1000
StartMs == 22 * HourMs + 500
MaxNow == StartMs + MaxHours * HourMs

\* ------------------------------------------------------------------ domains
Campaigns == {1, 2}
Senders == {1}
Workers == {1, 2}
Tasks == {"check-scheduled-campaigns", "start-daily-leads", "process-daily-leads", "retry-failed-steps"}

\* ----------------------------------------------------------------- workflow
\* delayData of an edge as the request body carries it: delay is a string
\* (a sequence of characters, << >> when absent or empty), unit is a string
\* ("" when absent)
NoDelay == [delay |-> << >>, unit |-> ""]

Delay(str, u) == [delay |-> str, unit |-> u]

Nodes ==
  << [id |-> 1, type |-> "action", dtype |-> "send_connection_request"],
     [id |-> 2, type |-> "action", dtype |-> "send_followup"],
     [id |-> 3, type |-> "action", dtype |-> "withdraw_request"],
     [id |-> 4, type |-> "addStep", dtype |-> "addStep"],
     [id |-> 5, type |-> "action", dtype |-> "like_post"] >>

Edges ==
  << [id |-> 1, source |-> 1, target |-> 2, isConditionalPath |-> TRUE, isPositive |-> TRUE, delayData |-> Delay(<<"3", "0">>, "m")],
     [id |-> 2, source |-> 1, target |-> 3, isConditionalPath |-> TRUE, isPositive |-> FALSE, delayData |-> Delay(<<"3", "0">>, "m")],
     [id |-> 3, source |-> 2, target |-> 5, isConditionalPath |-> TRUE, isPositive |-> TRUE, delayData |-> Delay(<<"1">>, "h")],
     [id |-> 4, source |-> 2, target |-> 3, isConditionalPath |-> TRUE, isPositive |-> FALSE, delayData |-> Delay(<<"1">>, "h")],
     [id |-> 5, source |-> 3, target |-> 4, isConditionalPath |-> FALSE, isPositive |-> FALSE, delayData |-> NoDelay],
     [id |-> 6, source |-> 5, target |-> 4, isConditionalPath |-> FALSE, isPositive |-> FALSE, delayData |-> NoDelay] >>

Range(f) == {f[i] : i \in DOMAIN f}

RECURSIVE MapNext(_, _)

RECURSIVE MapNext_KeepAddStep(_, _)

RECURSIVE SkipWhitespace(_)

RECURSIVE DigitPrefix(_)

RECURSIVE DigitsValue(_, _)

DigitChars == <<"0", "1", "2", "3", "4", "5", "6", "7", "8", "9">>

DigitOf(ch) == CHOOSE d \in 0..9 : DigitChars[d + 1] = ch

SkipWhitespace(str) ==
  IF str # << >> /\ Head(str) = " " THEN SkipWhitespace(Tail(str)) ELSE str

\* the longest prefix of str made of decimal digits
DigitPrefix(str) ==
  IF str # << >> /\ Head(str) \in Range(DigitChars)
  THEN <<Head(str)>> \o DigitPrefix(Tail(str))
  ELSE << >>

DigitsValue(ds, acc) ==
  IF ds = << >> THEN acc ELSE DigitsValue(Tail(ds), acc * 10 + DigitOf(Head(ds)))

\* parseInt(str, 10): leading whitespace skipped, an optional sign, then the
\* longest run of digits; whatever follows is ignored; NaN without a digit
parseInt(str) ==
  LET s1 == SkipWhitespace(str)
      signed == s1 # << >> /\ Head(s1) \in {"+", "-"}
      s2 == IF signed THEN Tail(s1) ELSE s1
      ds == DigitPrefix(s2)
  IN IF ds = << >> THEN [isNaN |-> TRUE, value |-> 0]
     ELSE [isNaN |-> FALSE,
           value |-> IF signed /\ Head(s1) = "-" THEN 0 - DigitsValue(ds, 0) ELSE DigitsValue(ds, 0)]

\* calculateDelayFromEdge
calculateDelayFromEdge(edge) ==
  LET dd == edge.delayData
      delay == parseInt(dd.delay).value
  IN
  IF dd.delay = << >> \/ dd.unit = "" THEN 0
  ELSE IF parseInt(dd.delay).isNaN THEN 0
  ELSE CASE dd.unit = "s" -> delay * 1000
         [] dd.unit = "m" -> delay * 60 * 1000
         [] dd.unit = "h" -> delay * 60 * 60 * 1000
         [] dd.unit = "d" -> delay * 24 * 60 * 60 * 1000
         [] dd.unit = "w" -> delay * 7 * 24 * 60 * 60 * 1000
         [] OTHER -> 0

\* findNodeById: the first node with that id, or no node
findNodeById(nodeId) == SelectSeq(Nodes, LAMBDA n : n.id = nodeId)

\* getNextWorkflowSteps that keeps the edges to addStep placeholders
MapNext_KeepAddStep(es, i) ==
  IF i > Len(es) THEN <<>>
  ELSE LET edge == es[i]
           tn == findNodeById(edge.target)
       IN IF tn = <<>> THEN MapNext_KeepAddStep(es, i + 1)
          ELSE << [nodeId |-> tn[1].id,
                   edgeId |-> edge.id,
                   dtype |-> tn[1].dtype,
                   delayMs |-> calculateDelayFromEdge(edge),
                   conditionalType |-> IF edge.isConditionalPath
                                       THEN (IF edge.isPositive THEN "accepted" ELSE "not_accepted")
                                       ELSE "none"] >> \o MapNext_KeepAddStep(es, i + 1)

\* getNextWorkflowSteps, one entry per retained outgoing edge, in edge order
MapNext(es, i) ==
  IF i > Len(es) THEN <<>>
  ELSE LET edge == es[i]
           tn == findNodeById(edge.target)
       IN IF tn = <<>> \/ tn[1].type = "addStep" THEN MapNext(es, i + 1)
          ELSE << [nodeId |-> tn[1].id,
                   edgeId |-> edge.id,
                   dtype |-> tn[1].dtype,
                   delayMs |-> calculateDelayFromEdge(edge),
                   conditionalType |-> IF edge.isConditionalPath
                                       THEN (IF edge.isPositive THEN "accepted" ELSE "not_accepted")
                                       ELSE "none"] >> \o MapNext(es, i + 1)

getNextWorkflowSteps(nodeId) ==
  MapNext(SelectSeq(Edges, LAMBDA e : e.source = nodeId), 1)

\* ----------------------------------------------------- calendar arithmetic
DayIdx(t) == t \div DayMs

\* Date.getDay(): 0 = Sunday .. 6 = Saturday
getDay(t) == (EpochDow + DayIdx(t)) % 7

\* rank of the weekday name of toDateString() in string order:
\* Fri < Mon < Sat < Sun < Thu < Tue < Wed
WeekdayRank(d) == <<3, 1, 5, 6, 4, 0, 2>>[d + 1]

\* days of a year (leap years are outside the horizon)
YearDays == 365

\* days since 1 January of the year of day 0
AbsDay(t) == EpochDoy - 1 + DayIdx(t)

\* Date.getFullYear(), counted from the year of day 0
getFullYear(t) == AbsDay(t) \div YearDays

\* day of the year, 1-based
Doy(t) == (AbsDay(t) % YearDays) + 1

\* day of the year on which each month ends
MonthEnds == <<31, 59, 90, 120, 151, 181, 212, 243, 273, 304, 334, 365>>

\* Date.getMonth(): 0 = January .. 11 = December
getMonth(t) == Cardinality({m \in 1..12 : MonthEnds[m] < Doy(t)})

\* Date.getDate()
getDate(t) == Doy(t) - (IF getMonth(t) = 0 THEN 0 ELSE MonthEnds[getMonth(t)])

\* rank of the month name of toDateString() in string order:
\* Apr < Aug < Dec < Feb < Jan < Jul < Jun < Mar < May < Nov < Oct < Sep
MonthRank(m) == <<4, 3, 7, 0, 8, 6, 5, 1, 11, 10, 9, 2>>[m + 1]

\* Date.toDateString(), "Www Mmm DD YYYY", as the tuple that orders like the string
toDateString(t) == <<WeekdayRank(getDay(t)), MonthRank(getMonth(t)), getDate(t), getFullYear(t)>>

RECURSIVE StringGreater(_, _)

\* a > b on strings of equal length
StringGreater(a, b) ==
  IF a = << >> THEN FALSE
  ELSE IF Head(a) # Head(b) THEN Head(a) > Head(b)
  ELSE StringGreater(Tail(a), Tail(b))

\* isNewDay: now.toDateString() > lastReset.toDateString(), a string comparison
isNewDay(lastReset, t) == StringGreater(toDateString(t), toDateString(lastReset))

\* getWeekNumber: week of the year of the Thursday of the date's week
getWeekNumber(t) ==
  LET dayNum == IF getDay(t) = 0 THEN 7 ELSE getDay(t)
      thu == AbsDay(t) + 4 - dayNum
  IN ((thu % YearDays) + 1 + 6) \div 7

\* isNewWeek
isNewWeek(lastReset, t) ==
  \/ getFullYear(t) > getFullYear(lastReset)
  \/ /\ getFullYear(t) = getFullYear(lastReset)
     /\ getWeekNumber(t) > getWeekNumber(lastReset)

getNextDayReset(t) == (DayIdx(t) + 1) * DayMs

\* getNextWeekReset without the special case for Sunday
getNextWeekReset_NoSundayCase(t) ==
  LET daysUntilMonday == 8 - getDay(t)
  IN (DayIdx(t) + daysUntilMonday) * DayMs

getNextWeekReset(t) ==
  LET daysUntilMonday == IF getDay(t) = 0 THEN 1 ELSE 8 - getDay(t)
  IN (DayIdx(t) + daysUntilMonday) * DayMs

Max(a, b) == IF a >= b THEN a ELSE b

\* checkConnectionRequestLimits(campaign) at time t; -1 stands for null
checkConnectionRequestLimits(c, t) ==
  LET resetDay == c.last_daily_requests_reset = -1 \/ isNewDay(c.last_daily_requests_reset, t)
      resetWeek == c.last_weekly_requests_reset = -1 \/ isNewWeek(c.last_weekly_requests_reset, t)
      day == IF resetDay THEN 0 ELSE c.requests_sent_this_day
      week == IF resetWeek THEN 0 ELSE c.requests_sent_this_week
      dailyExceeded == day >= DAILY_LIMIT
      weeklyExceeded == week >= WEEKLY_LIMIT
      waitUntilDaily == getNextDayReset(t) - t
      waitUntilWeekly == getNextWeekReset(t) - t
  IN [canProceed |-> ~(dailyExceeded \/ weeklyExceeded),
      waitUntilMs |-> IF dailyExceeded /\ weeklyExceeded THEN Max(waitUntilDaily, waitUntilWeekly)
                      ELSE IF dailyExceeded THEN waitUntilDaily
                      ELSE IF weeklyExceeded THEN waitUntilWeekly
                      ELSE -1,
      requestsSentThisDay |-> day,
      requestsSentThisWeek |-> week,
      resetDay |-> resetDay,
      resetWeek |-> resetWeek]

\* updateCampaign(id, updateData): the reset patch applied to the stored row
ApplyLimitsUpdate(row, lim, t) ==
  [row EXCEPT
     !.requests_sent_this_day = IF lim.resetDay THEN 0 ELSE @,
     !.last_daily_requests_reset = IF lim.resetDay THEN t ELSE @,
     !.requests_sent_this_week = IF lim.resetWeek THEN 0 ELSE @,
     !.last_weekly_requests_reset = IF lim.resetWeek THEN t ELSE @]


\* ------------------------------------------------------------- step ledger
PollingTypes == {"check_connection_status", "check_message_reply"}

\* raw_response of a step that has none
RawNone ==
  [kind |-> "none", providerId |-> FALSE, nextSteps |-> <<>>, nextStepsInfo |-> <<>>,
   pollingStartedAt |-> -1, hasReplied |-> FALSE, isSuccess |-> FALSE,
   hasTimedOut |-> FALSE, shouldContinuePolling |-> FALSE]

\* CreateWorkflowStepDto; parent, execs, hooked, sentBlocked and doneDay are
\* history fields (who created the step, and what happened to it)
NewStep(lead, node, idx, type, retries, execAfter, raw, t, parent) ==
  [lead_id |-> lead, id_in_workflow |-> node, step_index |-> idx, step_type |-> type,
   status |-> "PENDING", retries |-> retries, execute_after |-> execAfter,
   raw_response |-> raw, created_at |-> t,
   parent |-> parent, execs |-> 0, hooked |-> FALSE, sentBlocked |-> FALSE, doneDay |-> -1]

RECURSIVE FirstWith(_, _)

\* Array.find over nextSteps by conditionalType: the first match, or none
FirstWith(info, ct) ==
  IF info = <<>> THEN <<>>
  ELSE IF Head(info).conditionalType = ct THEN <<Head(info)>>
  ELSE FirstWith(Tail(info), ct)

\* a poll that never finds its chain timed out
PollResult_NeverTimesOut(step, success, t) ==
  [kind |-> "poll_result", providerId |-> step.raw_response.providerId,
   nextSteps |-> <<>>, nextStepsInfo |-> step.raw_response.nextSteps,
   pollingStartedAt |-> IF step.raw_response.pollingStartedAt # -1
                        THEN step.raw_response.pollingStartedAt
                        ELSE step.created_at,
   hasReplied |-> FALSE, isSuccess |-> success, hasTimedOut |-> FALSE,
   shouldContinuePolling |-> ~success]

\* executionResult of check_connection_status / check_message_reply at time t
PollResult(step, success, t) ==
  LET nextStepsInfo == step.raw_response.nextSteps
      pollingStartedAt == IF step.raw_response.pollingStartedAt # -1
                          THEN step.raw_response.pollingStartedAt
                          ELSE step.created_at
      acceptedPath == FirstWith(nextStepsInfo, "accepted")
      timeoutMs == IF acceptedPath = <<>> THEN 0 ELSE acceptedPath[1].delayMs
      hasTimedOut == t - pollingStartedAt > timeoutMs
  IN [kind |-> "poll_result", providerId |-> step.raw_response.providerId,
      nextSteps |-> <<>>, nextStepsInfo |-> nextStepsInfo,
      pollingStartedAt |-> pollingStartedAt, hasReplied |-> FALSE,
      isSuccess |-> success, hasTimedOut |-> hasTimedOut,
      shouldContinuePolling |-> ~success /\ ~hasTimedOut]

\* executionResult of a regular step; startedAt = -1 when the step starts no poll
ExecResult(kind, startedAt) ==
  [RawNone EXCEPT !.kind = kind, !.providerId = (startedAt # -1), !.pollingStartedAt = startedAt]

RECURSIVE FanOut(_, _, _)

\* one PENDING successor per outgoing edge
FanOut(cur, nextSteps, t) ==
  IF nextSteps = <<>> THEN <<>>
  ELSE << NewStep(cur.lead_id, Head(nextSteps).nodeId, cur.step_index + 1, Head(nextSteps).dtype,
                  0, (t + Head(nextSteps).delayMs) \div 1000, RawNone, t, cur.id) >>
       \o FanOut(cur, Tail(nextSteps), t)

\* continuePolling that re-schedules the poll under the index of the step it
\* replaces
continuePolling_SameIndex(cur, res, t) ==
  << NewStep(cur.lead_id, cur.id_in_workflow, cur.step_index, cur.step_type,
             cur.retries + 1, (t + 60 * 60 * 1000) \div 1000,
             [RawNone EXCEPT !.kind = "poll", !.providerId = res.providerId,
                             !.nextSteps = res.nextStepsInfo,
                             !.pollingStartedAt = res.pollingStartedAt],
             t, cur.id) >>

\* continuePolling that starts the poll afresh: the new step does not carry
\* the polling context of the step it replaces
continuePolling_FreshPoll(cur, res, t) ==
  << NewStep(cur.lead_id, cur.id_in_workflow, cur.step_index + 1, cur.step_type,
             cur.retries + 1, (t + 60 * 60 * 1000) \div 1000,
             [RawNone EXCEPT !.kind = "poll", !.providerId = res.providerId,
                             !.pollingStartedAt = t],
             t, cur.id) >>

\* createNextSteps, continue polling: the same node again, one hour later,
\* with the polling context carried over
continuePolling(cur, res, t) ==
  << NewStep(cur.lead_id, cur.id_in_workflow, cur.step_index + 1, cur.step_type,
             cur.retries + 1, (t + 60 * 60 * 1000) \div 1000,
             [RawNone EXCEPT !.kind = "poll", !.providerId = res.providerId,
                             !.nextSteps = res.nextStepsInfo,
                             !.pollingStartedAt = res.pollingStartedAt],
             t, cur.id) >>

\* createNextSteps, polling complete: the accepted or the not_accepted path
selectPath(cur, res, t) ==
  LET pathType == IF res.isSuccess THEN "accepted" ELSE "not_accepted"
      selectedPath == FirstWith(res.nextStepsInfo, pathType)
  IN IF selectedPath = <<>> THEN <<>>
     ELSE LET nextNode == findNodeById(selectedPath[1].nodeId)
          IN IF nextNode = <<>> THEN <<>>
             ELSE << NewStep(cur.lead_id, selectedPath[1].nodeId, cur.step_index + 1,
                             nextNode[1].dtype, 0, t \div 1000, RawNone, t, cur.id) >>

\* a planner that looks at shouldPoll before it looks at the outgoing edges:
\* it creates a polling step also at the end of the workflow
regularNextStepsOver_PollFirst(cur, nextSteps, res, shouldPoll, pollType, t) ==
  IF shouldPoll /\ pollType # "none"
  THEN << NewStep(cur.lead_id, cur.id_in_workflow, cur.step_index + 1,
                  IF pollType = "connection_status" THEN "check_connection_status"
                  ELSE "check_message_reply",
                  0, (t + 60 * 60 * 1000) \div 1000,
                  [RawNone EXCEPT !.kind = "poll", !.providerId = res.providerId,
                                  !.pollingStartedAt = res.pollingStartedAt,
                                  !.nextSteps = [i \in 1..Len(nextSteps) |->
                                      [nodeId |-> nextSteps[i].nodeId,
                                       edgeId |-> nextSteps[i].edgeId,
                                       conditionalType |-> nextSteps[i].conditionalType,
                                       delayMs |-> nextSteps[i].delayMs]]],
                  t, cur.id) >>
  ELSE FanOut(cur, nextSteps, t)

\* createNextSteps, regular step, with the result of getNextWorkflowSteps:
\* nothing at the end of the workflow, else one polling step, or one step per
\* edge
regularNextStepsOver(cur, nextSteps, res, shouldPoll, pollType, t) ==
     IF nextSteps = <<>> THEN <<>>
     ELSE IF shouldPoll /\ pollType # "none"
     THEN << NewStep(cur.lead_id, cur.id_in_workflow, cur.step_index + 1,
                     IF pollType = "connection_status" THEN "check_connection_status"
                     ELSE "check_message_reply",
                     0, (t + 60 * 60 * 1000) \div 1000,
                     [RawNone EXCEPT !.kind = "poll", !.providerId = res.providerId,
                                     !.pollingStartedAt = res.pollingStartedAt,
                                     !.nextSteps = [i \in 1..Len(nextSteps) |->
                                         [nodeId |-> nextSteps[i].nodeId,
                                          edgeId |-> nextSteps[i].edgeId,
                                          conditionalType |-> nextSteps[i].conditionalType,
                                          delayMs |-> nextSteps[i].delayMs]]],
                     t, cur.id) >>
     ELSE FanOut(cur, nextSteps, t)

\* createNextSteps, regular step: one polling step, or one step per edge
regularNextSteps(cur, res, shouldPoll, pollType, t) ==
  regularNextStepsOver(cur, getNextWorkflowSteps(cur.id_in_workflow), res, shouldPoll, pollType, t)

\* createNextSteps without the stop on a reply: a replied check_message_reply
\* goes on to path selection
createNextSteps_NoStopOnReply(cur, res, shouldPoll, pollType, t) ==
  IF cur.step_type \in PollingTypes
  THEN IF res.shouldContinuePolling THEN continuePolling(cur, res, t)
       ELSE selectPath(cur, res, t)
  ELSE regularNextSteps(cur, res, shouldPoll, pollType, t)

\* createNextSteps: the steps to create after currentStep completed with
\* executionResult at time t
createNextSteps(cur, res, shouldPoll, pollType, t) ==
  IF cur.step_type \in PollingTypes
  THEN IF res.shouldContinuePolling THEN continuePolling(cur, res, t)
       ELSE IF cur.step_type = "check_message_reply" /\ res.isSuccess THEN <<>>
       ELSE selectPath(cur, res, t)
  ELSE regularNextSteps(cur, res, shouldPoll, pollType, t)


\* a markStepFailed that leaves the retry count as it was
markStepFailed_KeepRetries(S, id) ==
  [S EXCEPT ![id].status = "FAILED",
            ![id].raw_response = [RawNone EXCEPT !.kind = "error"]]

\* markStepFailed: retries + 1, FAILED, raw_response = {error}
markStepFailed(S, id) ==
  [S EXCEPT ![id].status = "FAILED",
            ![id].retries = @ + 1,
            ![id].raw_response = [RawNone EXCEPT !.kind = "error"]]

\* getFirstWorkflowNode that falls back to the first node of the workflow,
\* placeholder or not, when every retained node has an incoming edge
getFirstWorkflowNodeOf_RawFallback(Ns, Es) ==
  LET nodes == SelectSeq(Ns, LAMBDA n : n.type # "addStep")
      validNodeIds == {n.id : n \in Range(nodes)}
      edges == {e \in Es : e.source \in validNodeIds /\ e.target \in validNodeIds}
      startingNodes == SelectSeq(nodes, LAMBDA n : \A e \in edges : e.target # n.id)
  IN IF nodes = <<>> THEN <<>>
     ELSE IF startingNodes = <<>> THEN <<Ns[1]>>
     ELSE <<startingNodes[1]>>

\* getFirstWorkflowNode for the nodes Ns (in order) and the edges Es: the
\* first retained node that is the target of no edge between retained nodes,
\* else the first retained node, else none
getFirstWorkflowNodeOf(Ns, Es) ==
  LET nodes == SelectSeq(Ns, LAMBDA n : n.type # "addStep")
      validNodeIds == {n.id : n \in Range(nodes)}
      edges == {e \in Es : e.source \in validNodeIds /\ e.target \in validNodeIds}
      startingNodes == SelectSeq(nodes, LAMBDA n : \A e \in edges : e.target # n.id)
  IN IF nodes = <<>> THEN <<>>
     ELSE IF startingNodes = <<>> THEN <<nodes[1]>>
     ELSE <<startingNodes[1]>>

\* getFirstWorkflowNode of the campaign's workflow
getFirstWorkflowNode == getFirstWorkflowNodeOf(Nodes, Range(Edges))

\* -------------------------------------------------------------------- state
VARIABLES now, campaigns, blockedUntil, leads, steps, workers, faultsLeft, lastPlan, probe

vars == <<now, campaigns, blockedUntil, leads, steps, workers, faultsLeft, lastPlan, probe>>

CampaignIds == <<1, 2>>

CampaignRow(status, prospects, startDate, leadsPerDay) ==
  [status |-> status, is_deleted |-> FALSE, sender_account |-> 1,
   prospect_list |-> prospects, start_date |-> startDate, leads_per_day |-> leadsPerDay,
   requests_sent_this_day |-> 0, requests_sent_this_week |-> 0,
   last_daily_requests_reset |-> -1, last_weekly_requests_reset |-> -1]

LeadRow(c) == [campaign_id |-> c, linkedin_id |-> FALSE]

Idle == [task |-> "idle", pc |-> "idle", cq |-> <<>>, sq |-> <<>>, camp |-> <<>>, blocked |-> -1]

\* the last run of executeStepAndAddNextStep that reached the provider: the
\* step, the provider's answer, the result and what createNextSteps created
NoPlan ==
  [id |-> 0, step_type |-> "none", node |-> 0, out |-> "none", retries |-> 0, hooked |-> FALSE,
   isSuccess |-> FALSE, hasTimedOut |-> FALSE, shouldContinuePolling |-> FALSE,
   created |-> <<>>]

Plan(s, out, hooked, res, new) ==
  [id |-> s.id, step_type |-> s.step_type, node |-> s.id_in_workflow, out |-> out,
   retries |-> s.retries, hooked |-> hooked,
   isSuccess |-> res.isSuccess, hasTimedOut |-> res.hasTimedOut,
   shouldContinuePolling |-> res.shouldContinuePolling,
   created |-> [i \in 1..Len(new) |-> [node |-> new[i].id_in_workflow, step_type |-> new[i].step_type]]]

\* the operation under examination. For createNextSteps: the edge whose
\* successors are planned, the completion time t and the successors created.
\* For checkConnectionRequestLimits: the campaign row it was given, the time t
\* of the call and the result it returned. For startCampaign, pauseCampaign
\* and resumeCampaign: which of them was called (op), the campaign id it was
\* called with and the error it threw. For the reply webhook: the leads its
\* attendees match and the repository call that raised ("none": the handler
\* responded {captured: true}). For the step after a sent request or message:
\* the step type (op), the outgoing edges of its node and the steps created.
\* For getFirstWorkflowNode: the nodes and edges of the workflow and the node
\* returned
NoProbe ==
  [edge |-> Edges[5], t |-> 0, created |-> << >>, planned |-> FALSE,
   row |-> CampaignRow("IN_PROGRESS", 1, -1, 1),
   limits |-> [canProceed |-> TRUE, waitUntilMs |-> -1, requestsSentThisDay |-> 0,
               requestsSentThisWeek |-> 0, resetDay |-> FALSE, resetWeek |-> FALSE],
   checked |-> FALSE,
   op |-> "none", campaign |-> 0, error |-> "none", called |-> FALSE,
   attendees |-> {}, edges |-> << >>,
   wfNodes |-> << >>, wfEdges |-> {}, entry |-> << >>]

\* campaign 1 is running with its n prospects imported and leads_per_day =
\* perDay; campaign 2 is scheduled and due, with m prospects and no
\* leads_per_day; both use sender 1; the provider may fail faults times
InitWith(n, m, faults, perDay) ==
  /\ now = StartMs
  /\ leads = [i \in 1..n |-> LeadRow(1)]
  /\ campaigns = [c \in Campaigns |->
                    IF c = 1 THEN CampaignRow("IN_PROGRESS", n, -1, perDay)
                    ELSE CampaignRow("SCHEDULED", m, StartMs, 0)]
  /\ blockedUntil = [s \in Senders |-> -1]
  /\ steps = <<>>
  /\ workers = [w \in Workers |-> Idle]
  /\ faultsLeft = faults
  /\ lastPlan = NoPlan
  /\ probe = NoProbe

\* one campaign with one lead
Init == InitWith(1, 0, MaxFaults, 1)

\* the row a tick holds in memory: WorkflowStepResponseDto with its id
Snap(i) ==
  [id |-> i, lead_id |-> steps[i].lead_id, id_in_workflow |-> steps[i].id_in_workflow,
   step_index |-> steps[i].step_index, step_type |-> steps[i].step_type,
   retries |-> steps[i].retries, raw_response |-> steps[i].raw_response,
   created_at |-> steps[i].created_at]

AllSnaps == [i \in 1..Len(steps) |-> Snap(i)]

\* getDailyStepsToExecute: PENDING and due, in store order
getDailyStepsToExecute ==
  SelectSeq(AllSnaps, LAMBDA s : /\ steps[s.id].status = "PENDING"
                                 /\ steps[s.id].execute_after <= now \div 1000)

\* findFailedStepsByLeadIds for the leads of campaign c
findFailedSteps(c) ==
  SelectSeq(AllSnaps, LAMBDA s : /\ steps[s.id].status = "FAILED"
                                 /\ leads[s.lead_id].campaign_id = c)

\* CampaignRepository.findByStatus: not deleted, by status
getCampaignsByStatus(status) ==
  SelectSeq(CampaignIds, LAMBDA c : campaigns[c].status = status /\ ~campaigns[c].is_deleted)

\* getCampaignsByStatusAndStartDate: SCHEDULED or DRAFT with a start date
getCampaignsByStatusAndStartDate ==
  SelectSeq(CampaignIds, LAMBDA c : /\ campaigns[c].status \in {"SCHEDULED", "DRAFT"}
                                    /\ campaigns[c].start_date # -1)

LeadsOf(c) == {l \in 1..Len(leads) : leads[l].campaign_id = c}

\* ------------------------------------------------------------------- clock
AdvanceClock ==
  /\ now + HourMs <= MaxNow
  /\ now' = now + HourMs
  /\ lastPlan' = NoPlan
  /\ UNCHANGED <<campaigns, blockedUntil, leads, steps, workers, faultsLeft, probe>>

\* --------------------------------------------------------------- cron ticks
\* the callback registerJob schedules: every firing invokes job.task(), whether
\* or not an earlier invocation has returned; w is the invocation. The
\* schedules are configuration, so a task may fire at any time; a task that
\* finds no campaign and no step returns at once
Fire(w, task) ==
  /\ workers[w].task = "idle"
  /\ LET cq == CASE task = "check-scheduled-campaigns" -> getCampaignsByStatusAndStartDate
                 [] task = "process-daily-leads" -> <<>>
                 [] OTHER -> getCampaignsByStatus("IN_PROGRESS")
         sq == IF task = "process-daily-leads" THEN getDailyStepsToExecute ELSE <<>>
     IN /\ sq # <<>> \/ cq # <<>>
        /\ workers' = [workers EXCEPT ![w] =
                         [Idle EXCEPT !.task = task, !.cq = cq, !.sq = sq,
                                      !.pc = IF sq # <<>> THEN "load" ELSE "campaign"]]
  /\ lastPlan' = NoPlan
  /\ UNCHANGED <<probe, faultsLeft, now, campaigns, blockedUntil, leads, steps>>

\* the loop over campaigns moves on; after the last one job.task() returns
AfterCampaign(wk) ==
  IF Tail(wk.cq) = <<>> THEN Idle
  ELSE [wk EXCEPT !.cq = Tail(@), !.sq = <<>>, !.camp = <<>>, !.blocked = -1, !.pc = "campaign"]

\* the loop over steps moves on
AfterStep(wk) ==
  IF Tail(wk.sq) # <<>>
  THEN [wk EXCEPT !.sq = Tail(@), !.camp = <<>>, !.blocked = -1, !.pc = "load"]
  ELSE IF wk.task = "retry-failed-steps" THEN AfterCampaign(wk)
  ELSE Idle


\* ------------------------------------------------------------ orchestrator
\* startCampaign without the check for a completed campaign
startCampaignError_NoCompletedCheck(c) ==
  IF c \notin Campaigns THEN "Campaign not found"
  ELSE LET row == campaigns[c]
       IN IF row.sender_account = 0 THEN "Sender account not found"
          ELSE IF row.prospect_list = -1 THEN "Prospect list not found"
          ELSE IF row.status = "IN_PROGRESS" THEN "Campaign is already running"
          ELSE IF row.is_deleted THEN "Cannot start a deleted campaign"
          ELSE "none"

\* startCampaign: the DisplayError it throws, "none" when it throws nothing;
\* sender_account = 0 and prospect_list = -1 stand for null
startCampaignError(c) ==
  IF c \notin Campaigns THEN "Campaign not found"
  ELSE LET row == campaigns[c]
       IN IF row.sender_account = 0 THEN "Sender account not found"
          ELSE IF row.prospect_list = -1 THEN "Prospect list not found"
          ELSE IF row.status = "IN_PROGRESS" THEN "Campaign is already running"
          ELSE IF row.is_deleted THEN "Cannot start a deleted campaign"
          ELSE IF row.status = "COMPLETED" THEN "Cannot start a completed campaign"
          ELSE "none"

\* startCampaign: the rows after the call (unchanged when it throws or when
\* the prospect list is empty)
startCampaign(c) ==
  LET error == startCampaignError(c)
  IN IF error # "none" \/ campaigns[c].prospect_list = 0
     THEN [leads |-> leads, campaigns |-> campaigns, error |-> error]
     ELSE [leads |-> leads \o [i \in 1..campaigns[c].prospect_list |-> LeadRow(c)],
           campaigns |-> [campaigns EXCEPT ![c].status = "IN_PROGRESS"],
           error |-> error]

\* checkAndStartScheduledCampaigns, one campaign of the loop
CheckScheduledCampaign(w) ==
  /\ workers[w].pc = "campaign"
  /\ workers[w].task = "check-scheduled-campaigns"
  /\ LET c == Head(workers[w].cq)
         started == IF campaigns[c].start_date # -1 /\ campaigns[c].start_date <= now
                    THEN startCampaign(c)
                    ELSE [leads |-> leads, campaigns |-> campaigns]
     IN /\ leads' = started.leads
        /\ campaigns' = started.campaigns
  /\ workers' = [workers EXCEPT ![w] = AfterCampaign(@)]
  /\ lastPlan' = NoPlan
  /\ UNCHANGED <<probe, faultsLeft, now, blockedUntil, steps>>

\* pauseCampaign
PauseCampaign(c) ==
  /\ campaigns[c].status \in {"IN_PROGRESS", "PAUSED"}
  /\ campaigns' = [campaigns EXCEPT ![c].status = "PAUSED"]
  /\ lastPlan' = NoPlan
  /\ UNCHANGED <<probe, faultsLeft, now, blockedUntil, leads, steps, workers>>

\* resumeCampaign
ResumeCampaign(c) ==
  /\ campaigns[c].status = "PAUSED"
  /\ campaigns' = [campaigns EXCEPT ![c].status = "IN_PROGRESS"]
  /\ lastPlan' = NoPlan
  /\ UNCHANGED <<probe, faultsLeft, now, blockedUntil, leads, steps, workers>>

\* deleteCampaign(campaignId): CampaignRepository.softDelete
DeleteCampaign(c) ==
  /\ ~campaigns[c].is_deleted
  /\ campaigns' = [campaigns EXCEPT ![c].is_deleted = TRUE]
  /\ lastPlan' = NoPlan
  /\ UNCHANGED <<probe, faultsLeft, now, blockedUntil, leads, steps, workers>>

\* --------------------------------------------------------- lead admission
\* a run that completes a campaign only when it has no lead at all
noLeadLeftToStart_OnlyWithoutLeads(allLeads, unstartedLeads) == allLeads = {}

\* allLeads.length === 0, or unstartedLeads.length === 0
noLeadLeftToStart(allLeads, unstartedLeads) == allLeads = {} \/ unstartedLeads = {}

\* the number of leads a run starts when it ignores leads_per_day
leadsToStartCount_All(perDay, unstarted) == unstarted

\* Math.min(campaign.leads_per_day || 10, shuffledLeads.length)
leadsToStartCount(perDay, unstarted) ==
  LET leadsPerDay == IF perDay = 0 THEN 10 ELSE perDay
  IN IF leadsPerDay <= unstarted THEN leadsPerDay ELSE unstarted

\* startDailyLeads(campaignId), one campaign of startDailyLeadsForAllCampaigns
StartDailyCampaign(w) ==
  /\ workers[w].pc = "campaign"
  /\ workers[w].task = "start-daily-leads"
  /\ LET c == Head(workers[w].cq)
         allLeads == LeadsOf(c)
         leadsWithSteps == {steps[i].lead_id : i \in 1..Len(steps)}
         unstartedLeads == allLeads \ leadsWithSteps
         k == leadsToStartCount(campaigns[c].leads_per_day, Cardinality(unstartedLeads))
         firstNode == getFirstWorkflowNode
     IN IF noLeadLeftToStart(allLeads, unstartedLeads)
        THEN /\ campaigns' = [campaigns EXCEPT ![c].status = "COMPLETED"]
             /\ steps' = steps
        ELSE /\ campaigns' = campaigns
             /\ IF campaigns[c].is_deleted \/ firstNode = <<>> THEN steps' = steps
                ELSE \E leadsToStart \in [1..k -> unstartedLeads] :
                       /\ \A i, j \in 1..k : i # j => leadsToStart[i] # leadsToStart[j]
                       /\ Len(steps) + k <= MaxSteps
                       /\ steps' = steps \o
                            [i \in 1..k |-> NewStep(leadsToStart[i], firstNode[1].id, 0,
                                                    firstNode[1].dtype, 0, now \div 1000,
                                                    RawNone, now, 0)]
  /\ workers' = [workers EXCEPT ![w] = AfterCampaign(@)]
  /\ lastPlan' = NoPlan
  /\ UNCHANGED <<probe, faultsLeft, now, blockedUntil, leads>>

\* startDailyLeads(campaignId, {runFailed}), up to the loop over failed steps
RetryCampaign(w) ==
  /\ workers[w].pc = "campaign"
  /\ workers[w].task = "retry-failed-steps"
  /\ LET c == Head(workers[w].cq)
         failedSteps == findFailedSteps(c)
     IN /\ campaigns' = IF LeadsOf(c) = {}
                        THEN [campaigns EXCEPT ![c].status = "COMPLETED"]
                        ELSE campaigns
        /\ workers' = [workers EXCEPT ![w] =
                         IF failedSteps = <<>> THEN AfterCampaign(@)
                         ELSE [@ EXCEPT !.sq = failedSteps, !.pc = "load"]]
  /\ lastPlan' = NoPlan
  /\ UNCHANGED <<probe, faultsLeft, now, blockedUntil, leads, steps>>

\* ----------------------------------------------------------- step executor
\* processSingleLead up to the call of executeStepAndAddNextStep; a retry
\* tick re-arms the step first
LoadStep(w) ==
  /\ workers[w].pc = "load"
  /\ LET s == Head(workers[w].sq)
         camp == campaigns[leads[s.lead_id].campaign_id]
         rearmed == IF workers[w].task = "retry-failed-steps"
                    THEN [steps EXCEPT ![s.id].status = "PENDING",
                                       ![s.id].execute_after = now \div 1000,
                                       ![s.id].execs = 0]
                    ELSE steps
         skipped == camp.status = "PAUSED" \/ camp.sender_account = 0
     IN /\ steps' = IF ~skipped /\ camp.is_deleted
                    THEN markStepFailed(rearmed, s.id)
                    ELSE rearmed
        /\ workers' = [workers EXCEPT ![w] =
                         IF skipped \/ camp.is_deleted THEN AfterStep(@)
                         ELSE [@ EXCEPT !.camp = <<camp>>,
                                        !.blocked = blockedUntil[camp.sender_account],
                                        !.pc = "exec"]]
  /\ lastPlan' = NoPlan
  /\ UNCHANGED <<probe, faultsLeft, now, campaigns, blockedUntil, leads>>

\* what the provider answers to the calls a step of that type makes
Outcomes(type) ==
  CASE type = "send_connection_request" -> {"ok", "unsupported", "visit_error", "error", "cannot_resend_yet"}
    [] type \in {"send_followup", "like_post", "comment_post", "withdraw_request"} ->
         {"ok", "unsupported", "visit_error", "error"}
    [] type = "profile_visit" -> {"ok", "unsupported", "visit_error"}
    [] type = "check_connection_status" -> {"connected", "not_connected", "error"}
    [] OTHER -> {"ok"}

\* deferConnectionRequestStepsForSender that forgets to add the 24 hours
deferConnectionRequestStepsForSender_NoDelay(S, sid, t) ==
  [i \in 1..Len(S) |->
     IF /\ S[i].status = "PENDING"
        /\ S[i].step_type = "send_connection_request"
        /\ campaigns[leads[S[i].lead_id].campaign_id].sender_account = sid
        /\ ~campaigns[leads[S[i].lead_id].campaign_id].is_deleted
     THEN [S[i] EXCEPT !.execute_after = t \div 1000]
     ELSE S[i]]

\* deferConnectionRequestStepsForSender
deferConnectionRequestStepsForSender(S, sid, t) ==
  [i \in 1..Len(S) |->
     IF /\ S[i].status = "PENDING"
        /\ S[i].step_type = "send_connection_request"
        /\ campaigns[leads[S[i].lead_id].campaign_id].sender_account = sid
        /\ ~campaigns[leads[S[i].lead_id].campaign_id].is_deleted
     THEN [S[i] EXCEPT !.execute_after = (t + 24 * 60 * 60 * 1000) \div 1000]
     ELSE S[i]]

\* the rate-limit gate that re-schedules the step at once
deferForRateLimit_NoWait(S, id, lim, t) ==
  [S EXCEPT ![id].execute_after = t \div 1000]

\* the rate-limit gate denies: the step is re-scheduled to the end of the wait
deferForRateLimit(S, id, lim, t) ==
  [S EXCEPT ![id].execute_after = (t + lim.waitUntilMs) \div 1000]

\* the step update to COMPLETE followed by createNextSteps
CompleteStep(S, s, res, shouldPoll, pollType, t) ==
  [S EXCEPT ![s.id].status = "COMPLETE",
            ![s.id].raw_response = res,
            ![s.id].execs = @ + 1,
            ![s.id].doneDay = IF @ = -1 THEN DayIdx(t) ELSE @]
  \o createNextSteps(s, res, shouldPoll, pollType, t)

\* the catch block of executeStepAndAddNextStep
FailStep(S, s, sid, isCannotResendYet, t) ==
  LET S1 == [S EXCEPT ![s.id].execs = @ + 1]
  IN IF isCannotResendYet /\ s.step_type = "send_connection_request"
     THEN markStepFailed(deferConnectionRequestStepsForSender(S1, sid, t), s.id)
     ELSE markStepFailed(S1, s.id)

\* executeStepAndAddNextStep with the rows processSingleLead loaded
ExecStep(w) ==
  /\ workers[w].pc = "exec"
  /\ LET s == Head(workers[w].sq)
         camp == workers[w].camp[1]
         cid == leads[s.lead_id].campaign_id
         sid == camp.sender_account
         blocked == workers[w].blocked
         lim == checkConnectionRequestLimits(camp, now)
         patched == IF lim.resetDay \/ lim.resetWeek
                    THEN [campaigns EXCEPT ![cid] = ApplyLimitsUpdate(@, lim, now)]
                    ELSE campaigns
         visited == [leads EXCEPT ![s.lead_id].linkedin_id = TRUE]
     IN IF findNodeById(s.id_in_workflow) = <<>>
        THEN /\ steps' = markStepFailed(steps, s.id)
             /\ lastPlan' = NoPlan
             /\ UNCHANGED <<campaigns, blockedUntil, leads, faultsLeft>>
        ELSE IF s.step_type = "send_connection_request" /\ blocked # -1 /\ blocked > now
        THEN /\ steps' = [steps EXCEPT ![s.id].execute_after = blocked \div 1000]
             /\ lastPlan' = [NoPlan EXCEPT !.id = s.id, !.step_type = s.step_type, !.out = "cooldown"]
             /\ UNCHANGED <<campaigns, blockedUntil, leads, faultsLeft>>
        ELSE IF s.step_type = "send_connection_request" /\ ~lim.canProceed
        THEN /\ steps' = deferForRateLimit(steps, s.id, lim, now)
             /\ campaigns' = patched
             /\ lastPlan' = [NoPlan EXCEPT !.id = s.id, !.step_type = s.step_type, !.out = "rate_limited"]
             /\ UNCHANGED <<blockedUntil, leads, faultsLeft>>
        ELSE \E out \in Outcomes(s.step_type) :
               LET isScr == s.step_type = "send_connection_request"
                   res == CASE s.step_type = "check_connection_status" ->
                                 PollResult(s, out = "connected", now)
                            [] s.step_type = "check_message_reply" ->
                                 [PollResult(s, s.raw_response.hasReplied, now)
                                    EXCEPT !.hasReplied = s.raw_response.hasReplied]
                            [] out = "unsupported" -> ExecResult("unsupported", -1)
                            [] s.step_type \in {"send_connection_request", "send_followup"} ->
                                 ExecResult("exec", now)
                            [] OTHER -> ExecResult("exec", -1)
                   shouldPoll == out = "ok" /\ s.step_type \in {"send_connection_request", "send_followup"}
                   pollType == IF ~shouldPoll THEN "none"
                               ELSE IF isScr THEN "connection_status" ELSE "message_reply"
                   failed == out \in {"visit_error", "error", "cannot_resend_yet"}
                   sent == isScr /\ out \in {"ok", "error", "cannot_resend_yet"}
                   S0 == IF sent /\ blockedUntil[sid] # -1 /\ now < blockedUntil[sid]
                         THEN [steps EXCEPT ![s.id].sentBlocked = TRUE]
                         ELSE steps
                   S1 == IF failed THEN FailStep(S0, s, sid, out = "cannot_resend_yet", now)
                         ELSE CompleteStep(S0, s, res, shouldPoll, pollType, now)
               IN /\ Len(S1) <= MaxSteps
                  /\ failed => faultsLeft > 0
                  /\ faultsLeft' = IF failed THEN faultsLeft - 1 ELSE faultsLeft
                  /\ steps' = S1
                  /\ lastPlan' = Plan(s, out, steps[s.id].hooked, res,
                                      IF failed THEN <<>>
                                      ELSE createNextSteps(s, res, shouldPoll, pollType, now))
                  /\ leads' = IF out \in {"ok", "error", "cannot_resend_yet"} /\ s.step_type \notin PollingTypes
                                 /\ s.step_type \notin {"webhook", "send_inmail"}
                              THEN visited ELSE leads
                  /\ campaigns' = IF ~isScr THEN campaigns
                                  ELSE IF out = "ok"
                                  THEN [campaigns EXCEPT ![cid] =
                                          [ApplyLimitsUpdate(@, lim, now) EXCEPT
                                             !.requests_sent_this_day = lim.requestsSentThisDay + 1,
                                             !.requests_sent_this_week = lim.requestsSentThisWeek + 1]]
                                  ELSE patched
                  /\ blockedUntil' = IF isScr /\ out = "cannot_resend_yet"
                                     THEN [blockedUntil EXCEPT ![sid] = now + 24 * 60 * 60 * 1000]
                                     ELSE blockedUntil
  /\ workers' = [workers EXCEPT ![w] = AfterStep(@)]
  /\ UNCHANGED <<now, probe>>

\* executeStepAndAddNextStep when a repository call inside its try block
\* raises (the update to COMPLETE, a counter update or the bulkCreate of
\* createNextSteps): the catch block marks the step failed
DbErrorStep(w) ==
  /\ workers[w].pc = "exec"
  /\ faultsLeft > 0
  /\ LET s == Head(workers[w].sq)
     IN /\ findNodeById(s.id_in_workflow) # <<>>
        /\ steps' = FailStep(steps, s, workers[w].camp[1].sender_account, FALSE, now)
        /\ lastPlan' = [NoPlan EXCEPT !.id = s.id, !.step_type = s.step_type, !.out = "db_error"]
  /\ faultsLeft' = faultsLeft - 1
  /\ workers' = [workers EXCEPT ![w] = AfterStep(@)]
  /\ UNCHANGED <<now, probe, campaigns, blockedUntil, leads>>

\* ----------------------------------------------------------- reply webhook
\* WorkflowStepsRepository.findByLeadIdsWhereStepTypeIs: the PENDING steps of
\* that type of the leads in L
findByLeadIdsWhereStepTypeIs(S, L, type) ==
  {i \in 1..Len(S) : /\ S[i].lead_id \in L
                     /\ S[i].step_type = type
                     /\ S[i].status = "PENDING"}

\* a handler that updates the first step it found only
markReplied_FirstOnly(S, found) ==
  LET first == CHOOSE i \in found : \A j \in found : i <= j
  IN [S EXCEPT ![first].raw_response = [@ EXCEPT !.hasReplied = TRUE],
               ![first].hooked = TRUE]

\* updateMany(stepIds, {raw_response: {...raw_response of the first step,
\* hasReplied: true}})
markReplied(S, found) ==
  LET first == CHOOSE i \in found : \A j \in found : i <= j
  IN [i \in 1..Len(S) |->
        IF i \in found
        THEN [S[i] EXCEPT !.raw_response = [S[first].raw_response EXCEPT !.hasReplied = TRUE],
                          !.hooked = TRUE]
        ELSE S[i]]

\* POST /api/webhooks/unipileReply for the attendees that match the leads in L
ReplyWebhook(L) ==
  /\ L # {}
  /\ \A l \in L : leads[l].linkedin_id
  /\ LET found == findByLeadIdsWhereStepTypeIs(steps, L, "check_message_reply")
     IN /\ found # {}
        /\ steps' = markReplied(steps, found)
  /\ lastPlan' = NoPlan
  /\ UNCHANGED <<probe, faultsLeft, now, campaigns, blockedUntil, leads, workers>>

\* --------------------------------------------------------------------- spec
EngineTasks == {"start-daily-leads", "process-daily-leads", "retry-failed-steps"}

\* one lead goes down its path: the ticks run one at a time, the clock
\* advances and the reply webhook comes in
Next ==
  \/ AdvanceClock
  \/ \E task \in EngineTasks : Fire(1, task)
  \/ StartDailyCampaign(1)
  \/ RetryCampaign(1)
  \/ LoadStep(1)
  \/ ExecStep(1)
  \/ \E L \in SUBSET (1..Len(leads)) : ReplyWebhook(L)

Spec == Init /\ [][Next]_vars

\* two leads of one sender, in one campaign or in two, within one hour: the
\* four tasks run one tick at a time. With n = 0 campaign 1 was created
\* IN_PROGRESS and its prospects were never imported
InitLeads == \E n \in 0..2 : InitWith(n, 2 - n, MaxFaults, 1)

NextLeads ==
  \/ \E task \in Tasks : Fire(1, task)
  \/ CheckScheduledCampaign(1)
  \/ StartDailyCampaign(1)
  \/ RetryCampaign(1)
  \/ LoadStep(1)
  \/ ExecStep(1)

SpecLeads == InitLeads /\ [][NextLeads]_vars

\* the campaigns of SpecLeads with a lead in campaign 1, deleted at any moment
\* while the four tasks run one tick at a time
InitDelete == \E n \in 1..2 : InitWith(n, 2 - n, MaxFaults, 1)

NextDelete ==
  \/ \E task \in Tasks : Fire(1, task)
  \/ CheckScheduledCampaign(1)
  \/ StartDailyCampaign(1)
  \/ RetryCampaign(1)
  \/ LoadStep(1)
  \/ ExecStep(1)
  \/ \E c \in Campaigns : DeleteCampaign(c)

SpecDelete == InitDelete /\ [][NextDelete]_vars

\* the ticks of SpecLeads when the database may raise as well as the provider
NextFaults ==
  \/ \E task \in Tasks : Fire(1, task)
  \/ CheckScheduledCampaign(1)
  \/ StartDailyCampaign(1)
  \/ RetryCampaign(1)
  \/ LoadStep(1)
  \/ ExecStep(1)
  \/ DbErrorStep(1)

SpecFaults == InitLeads /\ [][NextFaults]_vars

\* one campaign with one lead, paused and resumed while the ticks run
NextPause ==
  \/ AdvanceClock
  \/ \E task \in EngineTasks : Fire(1, task)
  \/ StartDailyCampaign(1)
  \/ RetryCampaign(1)
  \/ LoadStep(1)
  \/ ExecStep(1)
  \/ \E c \in Campaigns : PauseCampaign(c)
  \/ \E c \in Campaigns : ResumeCampaign(c)

SpecPause == Init /\ [][NextPause]_vars

\* a tick of retry-failed-steps runs beside the ticks of the other tasks;
\* leads_per_day of campaign 1 admits both of its leads in one tick
InitCross == \E n \in 1..2 : InitWith(n, 0, MaxCrossFaults, 2)

NextCross ==
  \/ \E task \in EngineTasks \ {"retry-failed-steps"} : Fire(1, task)
  \/ Fire(2, "retry-failed-steps")
  \/ \E w \in Workers : StartDailyCampaign(w)
  \/ \E w \in Workers : RetryCampaign(w)
  \/ \E w \in Workers : LoadStep(w)
  \/ \E w \in Workers : ExecStep(w)

SpecCross == InitCross /\ [][NextCross]_vars

\* a task fires again while its earlier tick is still running
NextOverlap ==
  \/ \E w \in Workers, task \in EngineTasks : Fire(w, task)
  \/ \E w \in Workers : StartDailyCampaign(w)
  \/ \E w \in Workers : RetryCampaign(w)
  \/ \E w \in Workers : LoadStep(w)
  \/ \E w \in Workers : ExecStep(w)

SpecOverlap == Init /\ [][NextOverlap]_vars

\* ------------------------------------------- successors across one edge
\* the characters a delay string is made of
DelayChars == {"1", "2", "x", ".", "-"}

DelayStrings == UNION {[1..k -> DelayChars] : k \in 0..MaxDelayLen}

DelayUnits == {"", "s", "m", "h", "d", "w", "y"}

\* the delayData a create request can carry; amounts are kept small enough
\* for a delay of that many weeks to fit the integers of the model
DelayInputs ==
  {dd \in {Delay(str, u) : str \in DelayStrings, u \in DelayUnits} :
     LET v == parseInt(dd.delay).value
     IN v <= MaxDelayAmount /\ 0 - v <= MaxDelayAmount}

\* an edge from send_followup to like_post that carries delayData dd
ProbeEdge(dd) ==
  [id |-> 7, source |-> 2, target |-> 5, isConditionalPath |-> FALSE,
   isPositive |-> FALSE, delayData |-> dd]

InitDelay ==
  /\ now = StartMs
  /\ leads = <<LeadRow(1)>>
  /\ campaigns = [c \in Campaigns |-> CampaignRow("IN_PROGRESS", 1, -1, 1)]
  /\ blockedUntil = [s \in Senders |-> -1]
  /\ steps = << >>
  /\ workers = [w \in Workers |-> Idle]
  /\ faultsLeft = 0
  /\ lastPlan = NoPlan
  /\ \E dd \in DelayInputs : probe = [NoProbe EXCEPT !.edge = ProbeEdge(dd)]

\* createNextSteps for a regular step that completed at the source of the
\* edge and starts no poll: one successor per retained outgoing edge
PlanSuccessors ==
  /\ ~probe.planned
  /\ LET cur == [id |-> 1] @@ [NewStep(1, probe.edge.source, 0, "send_followup", 0,
                                        now \div 1000, RawNone, now, 0)
                                EXCEPT !.status = "COMPLETE"]
     IN probe' = [probe EXCEPT !.t = now,
                               !.created = FanOut(cur, MapNext(<<probe.edge>>, 1), now),
                               !.planned = TRUE]
  /\ UNCHANGED <<now, campaigns, blockedUntil, leads, steps, workers, faultsLeft, lastPlan>>

TickClock ==
  /\ now + HourMs <= MaxNow
  /\ now' = now + HourMs
  /\ UNCHANGED <<campaigns, blockedUntil, leads, steps, workers, faultsLeft, lastPlan, probe>>

NextDelay ==
  \/ TickClock
  \/ PlanSuccessors

SpecDelay == InitDelay /\ [][NextDelay]_vars

\* ------------------------------------------------ limits on a calendar
\* days before and after day 0 on which a call or a recorded reset can fall
LimitDays == (0 - MaxLimitDays)..MaxLimitDays

LimitTimes == {d * DayMs + StartMs - DayIdx(StartMs) * DayMs : d \in LimitDays}

\* a campaign row with any counters and any recorded resets not after now
InitLimits ==
  /\ now \in LimitTimes
  /\ leads = <<LeadRow(1)>>
  /\ \E day \in 0..DAILY_LIMIT, week \in 0..WEEKLY_LIMIT,
        lastDay \in {-1} \cup {t \in LimitTimes : t <= now},
        lastWeek \in {-1} \cup {t \in LimitTimes : t <= now} :
        campaigns = [c \in Campaigns |->
                       [CampaignRow("IN_PROGRESS", 1, -1, 1) EXCEPT
                          !.requests_sent_this_day = day,
                          !.requests_sent_this_week = week,
                          !.last_daily_requests_reset = lastDay,
                          !.last_weekly_requests_reset = lastWeek]]
  /\ blockedUntil = [s \in Senders |-> -1]
  /\ steps = << >>
  /\ workers = [w \in Workers |-> Idle]
  /\ faultsLeft = 0
  /\ lastPlan = NoPlan
  /\ probe = NoProbe

\* checkConnectionRequestLimits(campaign) on the stored row of campaign 1,
\* followed by updateCampaign(campaign.id, limitsUpdateData)
CheckLimits ==
  /\ ~probe.checked
  /\ LET lim == checkConnectionRequestLimits(campaigns[1], now)
     IN /\ probe' = [probe EXCEPT !.row = campaigns[1], !.t = now, !.limits = lim, !.checked = TRUE]
        /\ campaigns' = [campaigns EXCEPT ![1] = ApplyLimitsUpdate(@, lim, now)]
  /\ UNCHANGED <<now, blockedUntil, leads, steps, workers, faultsLeft, lastPlan>>

NextLimits == CheckLimits

SpecLimits == InitLimits /\ [][NextLimits]_vars

\* ------------------------------------------------- starting a campaign
CampaignStatuses == {"DRAFT", "SCHEDULED", "IN_PROGRESS", "COMPLETED", "FAILED", "PAUSED"}

\* campaign 1 has one lead with its entry step; campaign 2 is any stored row
InitStart ==
  /\ now = StartMs
  /\ leads = <<LeadRow(1)>>
  /\ \E st1 \in {"IN_PROGRESS", "PAUSED", "COMPLETED"}, st2 \in CampaignStatuses,
        deleted \in BOOLEAN, sender \in {0, 1}, prospects \in -1..1 :
        campaigns = [c \in Campaigns |->
                       IF c = 1 THEN CampaignRow(st1, 1, -1, 1)
                       ELSE [CampaignRow(st2, prospects, -1, 1) EXCEPT
                               !.is_deleted = deleted, !.sender_account = sender]]
  /\ blockedUntil = [s \in Senders |-> -1]
  /\ steps = << NewStep(1, 1, 0, "send_connection_request", 0, StartMs \div 1000, RawNone, StartMs, 0) >>
  /\ workers = [w \in Workers |-> Idle]
  /\ faultsLeft = 0
  /\ lastPlan = NoPlan
  /\ probe = NoProbe

\* a call of startCampaign(campaignId); id 0 names no stored campaign
StartCampaignCall(c) ==
  /\ IF c \in Campaigns
     THEN /\ Len(startCampaign(c).leads) <= MaxLeads
          /\ leads' = startCampaign(c).leads
          /\ campaigns' = startCampaign(c).campaigns
     ELSE UNCHANGED <<leads, campaigns>>
  /\ probe' = [probe EXCEPT !.op = "start", !.campaign = c, !.error = startCampaignError(c),
                            !.called = TRUE]
  /\ UNCHANGED <<now, blockedUntil, steps, workers, faultsLeft, lastPlan>>

NextStart == \E c \in Campaigns \cup {0} : StartCampaignCall(c)

SpecStart == InitStart /\ [][NextStart]_vars

\* ------------------------------------------------ pausing and resuming
\* pauseCampaign that pauses a campaign in any status
pauseCampaignError_FromAnyStatus(c) ==
  IF c \notin Campaigns THEN "Campaign not found" ELSE "none"

\* pauseCampaign: the DisplayError it throws, "none" when it throws nothing
pauseCampaignError(c) ==
  IF c \notin Campaigns THEN "Campaign not found"
  ELSE IF campaigns[c].status # "IN_PROGRESS" /\ campaigns[c].status # "PAUSED"
  THEN "Cannot pause campaign"
  ELSE "none"

\* resumeCampaign: the DisplayError it throws, "none" when it throws nothing
resumeCampaignError(c) ==
  IF c \notin Campaigns THEN "Campaign not found"
  ELSE IF campaigns[c].status # "PAUSED" THEN "Cannot resume campaign"
  ELSE "none"

\* a call of pauseCampaign(campaignId); id 0 names no stored campaign
PauseCampaignCall(c) ==
  /\ campaigns' = IF pauseCampaignError(c) = "none"
                  THEN [campaigns EXCEPT ![c].status = "PAUSED"]
                  ELSE campaigns
  /\ probe' = [probe EXCEPT !.op = "pause", !.campaign = c, !.error = pauseCampaignError(c),
                            !.called = TRUE]
  /\ UNCHANGED <<now, blockedUntil, leads, steps, workers, faultsLeft, lastPlan>>

\* a call of resumeCampaign(campaignId)
ResumeCampaignCall(c) ==
  /\ campaigns' = IF resumeCampaignError(c) = "none"
                  THEN [campaigns EXCEPT ![c].status = "IN_PROGRESS"]
                  ELSE campaigns
  /\ probe' = [probe EXCEPT !.op = "resume", !.campaign = c, !.error = resumeCampaignError(c),
                            !.called = TRUE]
  /\ UNCHANGED <<now, blockedUntil, leads, steps, workers, faultsLeft, lastPlan>>

NextStatus ==
  \/ \E c \in Campaigns \cup {0} : StartCampaignCall(c)
  \/ \E c \in Campaigns \cup {0} : PauseCampaignCall(c)
  \/ \E c \in Campaigns \cup {0} : ResumeCampaignCall(c)

SpecStatus == InitStart /\ [][NextStatus]_vars

\* -------------------------------------------------- creating a campaign
\* a slot of the campaigns table that holds no row yet
NoCampaign == CampaignRow("", -1, -1, 0)

\* the start dates a create request can carry: none (-1), yesterday, later
\* today, tomorrow
StartDates == {-1, StartMs - DayMs, StartMs + HourMs, StartMs + DayMs}

\* CreateCampaignAPI.POST up to the stored row: the status is IN_PROGRESS when
\* the request has no start date or one whose date is today or earlier, and
\* SCHEDULED otherwise; the start that follows is CreateCampaignStart
CreateCampaign(c) ==
  /\ campaigns[c] = NoCampaign
  /\ ~(probe.op = "create" /\ ~probe.called)
  /\ \E startDate \in StartDates, prospects \in 1..2 :
       LET shouldStartImmediately == startDate = -1 \/ DayIdx(startDate) <= DayIdx(now)
           campaignStatus == IF shouldStartImmediately THEN "IN_PROGRESS" ELSE "SCHEDULED"
       IN /\ campaigns' = [campaigns EXCEPT ![c] = CampaignRow(campaignStatus, prospects, startDate, 1)]
          /\ probe' = [probe EXCEPT !.op = "create", !.campaign = c, !.error = "none",
                                    !.called = ~shouldStartImmediately]
  /\ UNCHANGED <<now, blockedUntil, leads, steps, workers, faultsLeft, lastPlan>>

\* CreateCampaignAPI.POST, the immediate start: startCampaign(campaign.id)
\* with its error caught and logged
CreateCampaignStart ==
  /\ probe.op = "create"
  /\ ~probe.called
  /\ Len(startCampaign(probe.campaign).leads) <= MaxLeads
  /\ leads' = startCampaign(probe.campaign).leads
  /\ campaigns' = startCampaign(probe.campaign).campaigns
  /\ probe' = [probe EXCEPT !.error = startCampaignError(probe.campaign), !.called = TRUE]
  /\ UNCHANGED <<now, blockedUntil, steps, workers, faultsLeft, lastPlan>>

InitCreate ==
  /\ now = StartMs
  /\ leads = << >>
  /\ campaigns = [c \in Campaigns |-> NoCampaign]
  /\ blockedUntil = [s \in Senders |-> -1]
  /\ steps = << >>
  /\ workers = [w \in Workers |-> Idle]
  /\ faultsLeft = 0
  /\ lastPlan = NoPlan
  /\ probe = NoProbe

NextCreate ==
  \/ \E c \in Campaigns : CreateCampaign(c)
  \/ CreateCampaignStart
  \/ \E c \in Campaigns : campaigns[c] # NoCampaign /\ StartCampaignCall(c)
  \/ Fire(1, "start-daily-leads")
  \/ StartDailyCampaign(1)

SpecCreate == InitCreate /\ [][NextCreate]_vars

\* ------------------------------------------------ the reply webhook alone
\* the row of S at position i as a tick holds it
SnapOf(S, i) ==
  [id |-> i, lead_id |-> S[i].lead_id, id_in_workflow |-> S[i].id_in_workflow,
   step_index |-> S[i].step_index, step_type |-> S[i].step_type,
   retries |-> S[i].retries, raw_response |-> S[i].raw_response,
   created_at |-> S[i].created_at]

\* how far a lead has come at the send_followup node: no step there yet, the
\* send_followup step PENDING, the message sent and the first
\* check_message_reply PENDING, or that one completed without a reply and the
\* next check_message_reply PENDING
ReplyStages == {"none", "sending", "polling", "polling_again"}

\* the id of the last step of S
LastOf(S) == Len(S)

\* the ledger after lead l went through the stage: its send_followup step was
\* created at time t, executed at t, and polled one hour later
LedgerAfter(S, l, stage, t) ==
  LET S1 == S \o << NewStep(l, 2, 2, "send_followup", 0, t \div 1000, RawNone, t, 0) >>
      S2 == CompleteStep(S1, SnapOf(S1, LastOf(S1)), ExecResult("exec", t), TRUE, "message_reply", t)
      poll == SnapOf(S2, LastOf(S2))
      S3 == CompleteStep(S2, poll, PollResult(poll, FALSE, t + HourMs), FALSE, "none", t + HourMs)
  IN CASE stage = "none" -> S
       [] stage = "sending" -> S1
       [] stage = "polling" -> S2
       [] OTHER -> S3

\* two leads of campaign 1 at the send_followup node, lead 1 two hours and
\* lead 2 one hour ahead of now; a lead whose message was sent has its
\* linkedin_id stored
InitReply ==
  /\ now = StartMs
  /\ \E stage1, stage2 \in ReplyStages, id1, id2 \in BOOLEAN :
       /\ leads = << [LeadRow(1) EXCEPT !.linkedin_id = id1 \/ stage1 \in {"polling", "polling_again"}],
                     [LeadRow(1) EXCEPT !.linkedin_id = id2 \/ stage2 \in {"polling", "polling_again"}] >>
       /\ steps = LedgerAfter(LedgerAfter(<< >>, 1, stage1, StartMs - 2 * HourMs),
                              2, stage2, StartMs - HourMs)
  /\ campaigns = [c \in Campaigns |->
                    IF c = 1 THEN CampaignRow("IN_PROGRESS", 2, -1, 2)
                    ELSE CampaignRow("SCHEDULED", 0, StartMs, 0)]
  /\ blockedUntil = [s \in Senders |-> -1]
  /\ workers = [w \in Workers |-> Idle]
  /\ faultsLeft = 0
  /\ lastPlan = NoPlan
  /\ probe = NoProbe

\* the repository calls of the handler, in the order it makes them
ReplyCalls == <<"findByLinkedinIds", "findByLeadIdsWhereStepTypeIs", "updateMany">>

\* POST /api/webhooks/unipileReply, every call succeeds: A are the leads
\* findByLinkedinIds returns for the attendees of the request
ReplyRequest(A) ==
  /\ \A l \in A : leads[l].linkedin_id
  /\ LET found == findByLeadIdsWhereStepTypeIs(steps, A, "check_message_reply")
     IN steps' = IF found # {} THEN markReplied(steps, found) ELSE steps
  /\ probe' = [probe EXCEPT !.op = "reply", !.attendees = A, !.error = "none", !.called = TRUE]
  /\ UNCHANGED <<now, campaigns, blockedUntil, leads, workers, faultsLeft, lastPlan>>

\* POST /api/webhooks/unipileReply when its k-th repository call raises: the
\* handler has no try block, the rejection goes to the error middleware and
\* line 47 is not reached
ReplyRequestRaises(A, k) ==
  /\ \A l \in A : leads[l].linkedin_id
  /\ k = 3 => findByLeadIdsWhereStepTypeIs(steps, A, "check_message_reply") # {}
  /\ probe' = [probe EXCEPT !.op = "reply", !.attendees = A, !.error = ReplyCalls[k],
                            !.called = TRUE]
  /\ UNCHANGED <<now, campaigns, blockedUntil, leads, steps, workers, faultsLeft, lastPlan>>

NextReply ==
  \/ \E A \in SUBSET (1..Len(leads)) : ReplyRequest(A)
  \/ \E A \in SUBSET (1..Len(leads)), k \in 1..Len(ReplyCalls) : ReplyRequestRaises(A, k)

SpecReply == InitReply /\ [][NextReply]_vars

\* --------------------------------- the step after a request or a message
\* the node of the workflow that holds the step of that type
NodeOf(type) == IF type = "send_connection_request" THEN 1 ELSE 2

\* an outgoing edge a workflow can give that node: to withdraw_request, to the
\* addStep placeholder, to like_post or to a node that does not exist,
\* conditional or not, with or without a delay
PollEdgeChoices(src) ==
  {[id |-> 0, source |-> src, target |-> tg, isConditionalPath |-> c, isPositive |-> p,
    delayData |-> dd] :
     tg \in {3, 4, 5, 9}, c \in BOOLEAN, p \in BOOLEAN, dd \in {NoDelay, Delay(<<"1">>, "h")}}

\* the edge lists of up to MaxPollEdges such edges, numbered in order; only a
\* conditional edge is marked positive
PollEdgeLists(src) ==
  {[i \in DOMAIN f |-> [f[i] EXCEPT !.id = i]] :
     f \in UNION {[1..k -> {e \in PollEdgeChoices(src) : e.isPositive => e.isConditionalPath}] :
                    k \in 0..MaxPollEdges}}

InitPoll ==
  /\ now = StartMs
  /\ leads = <<LeadRow(1)>>
  /\ campaigns = [c \in Campaigns |-> CampaignRow("IN_PROGRESS", 1, -1, 1)]
  /\ blockedUntil = [s \in Senders |-> -1]
  /\ steps = << >>
  /\ workers = [w \in Workers |-> Idle]
  /\ faultsLeft = 0
  /\ lastPlan = NoPlan
  /\ \E type \in {"send_connection_request", "send_followup"} :
       \E es \in PollEdgeLists(NodeOf(type)) :
         probe = [NoProbe EXCEPT !.op = type, !.edges = es]

\* createNextSteps after the request or the message went out: shouldPoll is
\* set, pollType names the poll, the result carries providerId and
\* pollingStartedAt
PlanPoll ==
  /\ ~probe.planned
  /\ LET cur == [id |-> 1] @@ [NewStep(1, NodeOf(probe.op), 0, probe.op, 0,
                                        now \div 1000, RawNone, now, 0)
                                EXCEPT !.status = "COMPLETE"]
         pollType == IF probe.op = "send_connection_request" THEN "connection_status"
                     ELSE "message_reply"
     IN probe' = [probe EXCEPT !.t = now,
                               !.created = regularNextStepsOver(cur, MapNext(probe.edges, 1),
                                                                ExecResult("exec", now), TRUE,
                                                                pollType, now),
                               !.planned = TRUE]
  /\ UNCHANGED <<now, campaigns, blockedUntil, leads, steps, workers, faultsLeft, lastPlan>>

NextPoll ==
  \/ TickClock
  \/ PlanPoll

SpecPoll == InitPoll /\ [][NextPoll]_vars

\* ------------------------------------------------- the entry of a workflow
\* the workflows of up to MaxWfNodes nodes, each an action or an addStep
\* placeholder, with up to MaxWfEdges edges between any two of them, an edge
\* from a node to itself included
WfNodeLists ==
  UNION {[1..k -> {"action", "addStep"}] : k \in 1..MaxWfNodes}

WfNodes(types) ==
  [i \in DOMAIN types |->
     [id |-> i, type |-> types[i],
      dtype |-> IF types[i] = "addStep" THEN "addStep" ELSE "profile_visit"]]

WfEdgeSets(k) ==
  {E \in SUBSET {[source |-> a, target |-> b] : a, b \in 1..k} : Cardinality(E) <= MaxWfEdges}

InitEntry ==
  /\ now = StartMs
  /\ leads = <<LeadRow(1)>>
  /\ campaigns = [c \in Campaigns |-> CampaignRow("IN_PROGRESS", 1, -1, 1)]
  /\ blockedUntil = [s \in Senders |-> -1]
  /\ steps = << >>
  /\ workers = [w \in Workers |-> Idle]
  /\ faultsLeft = 0
  /\ lastPlan = NoPlan
  /\ \E types \in WfNodeLists : \E E \in WfEdgeSets(Len(types)) :
       probe = [NoProbe EXCEPT !.op = "entry", !.wfNodes = WfNodes(types), !.wfEdges = E]

\* startDailyLeads asks for the entry of the campaign's workflow
FindEntry ==
  /\ ~probe.called
  /\ probe' = [probe EXCEPT !.entry = getFirstWorkflowNodeOf(probe.wfNodes, probe.wfEdges),
                            !.called = TRUE]
  /\ UNCHANGED <<now, campaigns, blockedUntil, leads, steps, workers, faultsLeft, lastPlan>>

NextEntry == FindEntry

SpecEntry == InitEntry /\ [][NextEntry]_vars

\* ------------------------------------------ two campaigns of one sender
\* campaign 1 has one lead and has sent any number of requests up to its limits
\* since its resets of today; campaign 2 of the same sender is due to start
\* with one lead; the four tasks run one tick at a time
InitDefer ==
  /\ now = StartMs
  /\ leads = <<LeadRow(1)>>
  /\ \E week \in 0..WEEKLY_LIMIT, day \in 0..DAILY_LIMIT :
        /\ day <= week
        /\ campaigns = [c \in Campaigns |->
                          IF c = 1
                          THEN [CampaignRow("IN_PROGRESS", 1, -1, 1) EXCEPT
                                  !.requests_sent_this_day = day,
                                  !.requests_sent_this_week = week,
                                  !.last_daily_requests_reset = StartMs,
                                  !.last_weekly_requests_reset = StartMs]
                          ELSE CampaignRow("SCHEDULED", 1, StartMs, 0)]
  /\ blockedUntil = [s \in Senders |-> -1]
  /\ steps = <<>>
  /\ workers = [w \in Workers |-> Idle]
  /\ faultsLeft = MaxFaults
  /\ lastPlan = NoPlan
  /\ probe = NoProbe

NextDefer ==
  \/ \E task \in Tasks : Fire(1, task)
  \/ CheckScheduledCampaign(1)
  \/ StartDailyCampaign(1)
  \/ RetryCampaign(1)
  \/ LoadStep(1)
  \/ ExecStep(1)

SpecDefer == InitDefer /\ [][NextDefer]_vars

\* --------------------------------------------- the ticks under fair firing
\* node-cron fires retry-failed-steps on every schedule: a firing that can
\* start again and again does start, and a tick that has started runs on to
\* its end
FairRetry ==
  /\ SF_vars(Fire(1, "retry-failed-steps"))
  /\ WF_vars(StartDailyCampaign(1))
  /\ WF_vars(RetryCampaign(1))
  /\ WF_vars(LoadStep(1))
  /\ WF_vars(ExecStep(1))

SpecRetryFair == Init /\ [][Next]_vars /\ FairRetry

\* ------------------------------------------------------- a polling chain
\* the ledger after the request or the message of the lead went out at
\* StartMs from a node with the outgoing edges es: the completed step and the
\* polling step createNextSteps created for it
LedgerChain(type, es) ==
  LET first == NewStep(1, NodeOf(type), 0, type, 0, StartMs \div 1000, RawNone, StartMs, 0)
      res == ExecResult("exec", StartMs)
      pollType == IF type = "send_connection_request" THEN "connection_status"
                  ELSE "message_reply"
  IN << [first EXCEPT !.status = "COMPLETE", !.raw_response = res, !.execs = 1,
                      !.doneDay = DayIdx(StartMs)] >>
     \o regularNextStepsOver([id |-> 1] @@ first, MapNext(es, 1), res, TRUE, pollType, StartMs)

\* one lead that is polled; every provider call succeeds
InitChain ==
  /\ now = StartMs
  /\ leads = <<[LeadRow(1) EXCEPT !.linkedin_id = TRUE]>>
  /\ campaigns = [c \in Campaigns |->
                    IF c = 1 THEN CampaignRow("IN_PROGRESS", 1, -1, 1)
                    ELSE CampaignRow("DRAFT", 0, -1, 0)]
  /\ blockedUntil = [s \in Senders |-> -1]
  /\ \E type \in {"send_connection_request", "send_followup"} :
       \E es \in PollEdgeLists(NodeOf(type)) :
         /\ MapNext(es, 1) # <<>>
         /\ steps = LedgerChain(type, es)
  /\ workers = [w \in Workers |-> Idle]
  /\ faultsLeft = 0
  /\ lastPlan = NoPlan
  /\ probe = NoProbe

\* time passes, process-daily-leads runs one tick at a time and the lead may
\* reply
NextChain ==
  \/ TickClock
  \/ Fire(1, "process-daily-leads")
  \/ LoadStep(1)
  \/ ExecStep(1)
  \/ ReplyWebhook({1})

SpecChain == InitChain /\ [][NextChain]_vars

\* node-cron fires process-daily-leads on every schedule and a started tick
\* runs to its end
FairChain ==
  /\ WF_vars(TickClock)
  /\ SF_vars(Fire(1, "process-daily-leads"))
  /\ WF_vars(LoadStep(1))
  /\ WF_vars(ExecStep(1))

SpecChainFair == SpecChain /\ FairChain

\* ------------------------------------------------------------------ claims
\* C1: while a campaign is PAUSED, no step of its leads leaves PENDING and no
\* successor step is created for its leads, also when pauseCampaign comes
\* between the steps of a running tick
C1_PausedCampaignIsFrozen ==
  [][/\ \A i \in 1..Len(steps) :
          /\ campaigns[leads[steps[i].lead_id].campaign_id].status = "PAUSED"
          /\ steps[i].status = "PENDING"
          => steps'[i].status = "PENDING"
     /\ \A j \in (Len(steps) + 1)..Len(steps') :
          campaigns[leads[steps'[j].lead_id].campaign_id].status = "PAUSED"
          => steps'[j].parent = 0]_vars

\* C2: within one day, at most DAILY_LIMIT send_connection_request steps of a
\* campaign complete with an invitation sent, however the ticks of
\* process-daily-leads and retry-failed-steps interleave
C2_DailyLimitHolds ==
  \A c \in Campaigns : \A d \in 0..DayIdx(MaxNow) :
    Cardinality({i \in 1..Len(steps) :
                   /\ steps[i].step_type = "send_connection_request"
                   /\ leads[steps[i].lead_id].campaign_id = c
                   /\ steps[i].status = "COMPLETE"
                   /\ steps[i].raw_response.kind = "exec"
                   /\ steps[i].doneDay = d}) <= DAILY_LIMIT

\* C3: while now < connection_request_blocked_until of a sender, no
\* send_connection_request step of that sender issues sendInvitation, and a
\* step the cooldown gate stopped waits until the end of the block
C3_NoInvitationWhileBlocked ==
  /\ \A i \in 1..Len(steps) : ~steps[i].sentBlocked
  /\ lastPlan.out = "cooldown"
     => LET sid == campaigns[leads[steps[lastPlan.id].lead_id].campaign_id].sender_account
        IN steps[lastPlan.id].execute_after >= blockedUntil[sid] \div 1000

\* C4: after sendInvitation failed with cannot_resend_yet, the step is FAILED
\* with retries + 1, the sender is blocked until now + 24h, and every PENDING
\* send_connection_request step of the sender's campaigns waits at least
\* until floor((now + 24h) / 1000)
C4_CannotResendYetDefers ==
  lastPlan.out = "cannot_resend_yet"
  => LET sid == campaigns[leads[steps[lastPlan.id].lead_id].campaign_id].sender_account
     IN /\ steps[lastPlan.id].status = "FAILED"
        /\ steps[lastPlan.id].retries = lastPlan.retries + 1
        /\ blockedUntil[sid] = now + DayMs
        /\ \A i \in 1..Len(steps) :
             /\ steps[i].status = "PENDING"
             /\ steps[i].step_type = "send_connection_request"
             /\ campaigns[leads[steps[i].lead_id].campaign_id].sender_account = sid
             /\ ~campaigns[leads[steps[i].lead_id].campaign_id].is_deleted
             => steps[i].execute_after >= (now + DayMs) \div 1000

\* a cannot_resend_yet failure while a step of another campaign of the same
\* sender is PENDING
C4_Witness ==
  /\ lastPlan.out = "cannot_resend_yet"
  /\ \E i \in 1..Len(steps) :
       /\ steps[i].status = "PENDING"
       /\ steps[i].step_type = "send_connection_request"
       /\ leads[steps[i].lead_id].campaign_id # leads[steps[lastPlan.id].lead_id].campaign_id

\* C5: a step armed PENDING is executed at most once, whichever ticks pick
\* it up
C5_ExecutedAtMostOnce ==
  \A i \in 1..Len(steps) : steps[i].execs <= 1

\* C6: of each cron task, at most one tick is in flight
C6_OneTickPerTask ==
  \A v, w \in Workers :
    v # w /\ workers[v].task # "idle" => workers[v].task # workers[w].task

\* C7: a check_message_reply step that completes with hasReplied = true
\* creates no successor step
C7_ReplyCreatesNoSuccessor ==
  lastPlan.step_type = "check_message_reply" /\ lastPlan.isSuccess
  => /\ lastPlan.created = <<>>
     /\ \A i \in 1..Len(steps) : steps[i].parent # lastPlan.id

\* a replied check_message_reply step whose nextSteps hold both branches
C7_Witness ==
  /\ lastPlan.step_type = "check_message_reply"
  /\ lastPlan.isSuccess
  /\ steps[lastPlan.id].status = "COMPLETE"
  /\ FirstWith(steps[lastPlan.id].raw_response.nextStepsInfo, "accepted") # <<>>
  /\ FirstWith(steps[lastPlan.id].raw_response.nextStepsInfo, "not_accepted") # <<>>

\* C8: once the webhook has set hasReplied on a PENDING check_message_reply
\* step, the run of that step creates no successor and no later
\* check_message_reply step exists for the lead
C8_ReplyEndsPolling ==
  /\ lastPlan.hooked => lastPlan.created = <<>>
  /\ \A i, j \in 1..Len(steps) :
       /\ i < j
       /\ steps[i].hooked
       /\ steps[j].lead_id = steps[i].lead_id
       => steps[j].step_type # "check_message_reply"

\* C9: a check_connection_status step that completes not connected and timed
\* out creates exactly one successor, at the not_accepted target, when its
\* node has a not_accepted branch, none otherwise, and never the accepted
\* target
C9_TimeoutTakesNotAccepted ==
  /\ lastPlan.step_type = "check_connection_status"
  /\ lastPlan.out = "not_connected"
  /\ lastPlan.hasTimedOut
  => LET branches == getNextWorkflowSteps(lastPlan.node)
         notAccepted == FirstWith(branches, "not_accepted")
         accepted == FirstWith(branches, "accepted")
     IN /\ IF notAccepted # <<>>
           THEN /\ Len(lastPlan.created) = 1
                /\ lastPlan.created[1].node = notAccepted[1].nodeId
           ELSE lastPlan.created = <<>>
        /\ \A k \in 1..Len(lastPlan.created) :
             accepted # <<>> => lastPlan.created[k].node # accepted[1].nodeId

\* C10: an entry step has step_index 0 and a step the planner created has
\* the step_index of its predecessor plus one
C10_StepIndexChain ==
  \A i \in 1..Len(steps) :
    IF steps[i].parent = 0 THEN steps[i].step_index = 0
    ELSE /\ steps[i].parent < i
         /\ steps[steps[i].parent].lead_id = steps[i].lead_id
         /\ steps[i].step_index = steps[steps[i].parent].step_index + 1

\* a poll re-scheduled by the planner, four steps into the path of its lead
C10_Witness ==
  \E i \in 1..Len(steps) :
    /\ steps[i].parent # 0
    /\ steps[i].step_type \in PollingTypes
    /\ steps[steps[i].parent].step_type = steps[i].step_type
    /\ steps[i].step_index = 4

\* C11: every successor created across an edge after a regular step completes
\* has execute_after = floor((completion time + delayMs) / 1000), where delayMs
\* is amount x unit for a decimal amount and a unit among s, m, h, d, w, and 0
\* when delayData is absent, malformed or has an unknown unit
C11_SuccessorDelay ==
  probe.planned =>
    LET dd == probe.edge.delayData
        body == IF dd.delay # << >> /\ Head(dd.delay) = "-" THEN Tail(dd.delay) ELSE dd.delay
        wellFormed == body # << >> /\ \A i \in 1..Len(body) : body[i] \in Range(DigitChars)
        amount == parseInt(dd.delay).value
        delayMs == IF ~wellFormed THEN 0
                   ELSE CASE dd.unit = "s" -> amount * 1000
                          [] dd.unit = "m" -> amount * 60 * 1000
                          [] dd.unit = "h" -> amount * 60 * 60 * 1000
                          [] dd.unit = "d" -> amount * 24 * 60 * 60 * 1000
                          [] dd.unit = "w" -> amount * 7 * 24 * 60 * 60 * 1000
                          [] OTHER -> 0
    IN /\ Len(probe.created) = 1
       /\ probe.created[1].execute_after = (probe.t + delayMs) \div 1000

\* C12: a process-daily-leads tick selects exactly the steps that are PENDING
\* with execute_after <= now (in seconds), and a step that is COMPLETE or
\* FAILED, or PENDING with a later execute_after, is never executed by the tick
C12_OnlyDuePendingExecuted ==
  [][\A w \in Workers :
       /\ (workers[w].task = "idle" /\ workers'[w].task = "process-daily-leads") =>
            {workers'[w].sq[k].id : k \in 1..Len(workers'[w].sq)}
              = {i \in 1..Len(steps) : /\ steps[i].status = "PENDING"
                                       /\ steps[i].execute_after <= now \div 1000}
       /\ (workers[w].task = "process-daily-leads" /\ workers[w].pc = "exec") =>
            LET id == Head(workers[w].sq).id
            IN steps'[id].execs > steps[id].execs =>
                 /\ steps[id].status = "PENDING"
                 /\ steps[id].execute_after <= now \div 1000]_vars

\* C13: requests_sent_this_day never decreases and last_daily_requests_reset
\* never moves except at a detected day boundary (no reset recorded, or
\* isNewDay of the recorded reset), where the counter restarts from 0 and
\* last_daily_requests_reset becomes the detection time; so a boundary is
\* acted on once. The same for the weekly counter
C13_CountersResetOncePerBoundary ==
  [][\A c \in Campaigns :
       LET r == campaigns[c]
           r2 == campaigns'[c]
           dayBoundary == r.last_daily_requests_reset = -1 \/ isNewDay(r.last_daily_requests_reset, now)
           weekBoundary == r.last_weekly_requests_reset = -1 \/ isNewWeek(r.last_weekly_requests_reset, now)
       IN /\ IF dayBoundary /\ r2.last_daily_requests_reset # r.last_daily_requests_reset
             THEN r2.last_daily_requests_reset = now /\ r2.requests_sent_this_day \in {0, 1}
             ELSE /\ r2.last_daily_requests_reset = r.last_daily_requests_reset
                  /\ r2.requests_sent_this_day \in {r.requests_sent_this_day, r.requests_sent_this_day + 1}
          /\ IF weekBoundary /\ r2.last_weekly_requests_reset # r.last_weekly_requests_reset
             THEN r2.last_weekly_requests_reset = now /\ r2.requests_sent_this_week \in {0, 1}
             ELSE /\ r2.last_weekly_requests_reset = r.last_weekly_requests_reset
                  /\ r2.requests_sent_this_week \in {r.requests_sent_this_week, r.requests_sent_this_week + 1}]_vars

\* C15: for every recorded last_daily_requests_reset and every now, the check
\* zeroes requests_sent_this_day and sets last_daily_requests_reset = now
\* exactly when the calendar date of now is later than the date of the last
\* reset, or no reset is recorded; on the same date the row keeps both
C15_DailyResetOnLaterDate ==
  probe.checked =>
    LET last == probe.row.last_daily_requests_reset
        laterDate == last = -1 \/ DayIdx(probe.t) > DayIdx(last)
    IN IF laterDate
       THEN /\ probe.limits.requestsSentThisDay = 0
            /\ campaigns[1].requests_sent_this_day = 0
            /\ campaigns[1].last_daily_requests_reset = probe.t
       ELSE /\ probe.limits.requestsSentThisDay = probe.row.requests_sent_this_day
            /\ campaigns[1].requests_sent_this_day = probe.row.requests_sent_this_day
            /\ campaigns[1].last_daily_requests_reset = last

\* C14: the weekly counter is reset exactly when now lies in a later
\* Monday-starting week than last_weekly_requests_reset (or no reset is
\* recorded), and not a second time within the same week, year changes included
C14_WeeklyResetOnLaterWeek ==
  probe.checked =>
    LET last == probe.row.last_weekly_requests_reset
        MondayWeek(t) == (DayIdx(t) + ((EpochDow + 6) % 7)) \div 7
        laterWeek == last = -1 \/ MondayWeek(probe.t) > MondayWeek(last)
    IN IF laterWeek
       THEN /\ probe.limits.requestsSentThisWeek = 0
            /\ campaigns[1].requests_sent_this_week = 0
            /\ campaigns[1].last_weekly_requests_reset = probe.t
       ELSE /\ probe.limits.requestsSentThisWeek = probe.row.requests_sent_this_week
            /\ campaigns[1].requests_sent_this_week = probe.row.requests_sent_this_week
            /\ campaigns[1].last_weekly_requests_reset = last

\* C16: the check returns canProceed = false exactly when, after the resets,
\* requests_sent_this_day >= DAILY_LIMIT or requests_sent_this_week >=
\* WEEKLY_LIMIT; waitUntilMs is then positive and is the time until the latest
\* of the resets that apply (next local midnight for the day, next Monday
\* 00:00 for the week); otherwise canProceed = true
C16_CanProceedAndWait ==
  probe.checked =>
    LET lim == probe.limits
        dayFull == campaigns[1].requests_sent_this_day >= DAILY_LIMIT
        weekFull == campaigns[1].requests_sent_this_week >= WEEKLY_LIMIT
        midnight == (DayIdx(probe.t) + 1) * DayMs
        monday == DayMs * (CHOOSE d \in (DayIdx(probe.t) + 1)..(DayIdx(probe.t) + 7) :
                             (EpochDow + d) % 7 = 1)
        untilDay == midnight - probe.t
        untilWeek == monday - probe.t
    IN /\ lim.canProceed = ~(dayFull \/ weekFull)
       /\ ~lim.canProceed =>
            /\ lim.waitUntilMs > 0
            /\ lim.waitUntilMs = IF dayFull /\ weekFull
                                 THEN (IF untilDay >= untilWeek THEN untilDay ELSE untilWeek)
                                 ELSE IF dayFull THEN untilDay ELSE untilWeek

\* a denied check on a Sunday with only the weekly limit reached
C16_Witness ==
  /\ probe.checked
  /\ ~probe.limits.canProceed
  /\ getDay(probe.t) = 0
  /\ campaigns[1].requests_sent_this_week >= WEEKLY_LIMIT
  /\ campaigns[1].requests_sent_this_day < DAILY_LIMIT
  /\ probe.limits.waitUntilMs > 0

\* C17: when the rate-limit gate denies a send_connection_request step, the
\* step stays PENDING with its retries, its execute_after becomes
\* floor((now + waitUntilMs) / 1000), the provider is not called, the
\* counters are not incremented and the counter-reset patch of the check is
\* persisted
C17_RateLimitDenialDefers ==
  [][\A w \in Workers :
       (workers[w].pc = "exec" /\ workers'[w] # workers[w]) =>
         LET s == Head(workers[w].sq)
             cid == leads[s.lead_id].campaign_id
             blocked == workers[w].blocked
             lim == checkConnectionRequestLimits(workers[w].camp[1], now)
             denied == /\ s.step_type = "send_connection_request"
                       /\ findNodeById(s.id_in_workflow) # << >>
                       /\ ~(blocked # -1 /\ blocked > now)
                       /\ ~lim.canProceed
         IN denied =>
              /\ steps[s.id].status = "PENDING" => steps'[s.id].status = "PENDING"
              /\ steps'[s.id].retries = steps[s.id].retries
              /\ lim.waitUntilMs > 0
              /\ steps'[s.id].execute_after = (now + lim.waitUntilMs) \div 1000
              /\ steps'[s.id].execs = steps[s.id].execs
              /\ Len(steps') = Len(steps)
              /\ leads' = leads
              /\ blockedUntil' = blockedUntil
              /\ campaigns'[cid].requests_sent_this_day <= campaigns[cid].requests_sent_this_day
              /\ campaigns'[cid].requests_sent_this_week <= campaigns[cid].requests_sent_this_week
              /\ lim.resetDay => campaigns'[cid].last_daily_requests_reset = now
              /\ lim.resetWeek => campaigns'[cid].last_weekly_requests_reset = now]_vars

\* a step the gate has just denied, waiting for the next reset
C17_Witness ==
  /\ lastPlan.out = "rate_limited"
  /\ steps[lastPlan.id].status = "PENDING"
  /\ steps[lastPlan.id].execute_after > now \div 1000
  /\ steps[lastPlan.id].execs = 0

\* C18: a start-daily-leads run on a campaign with U > 0 unstarted leads
\* creates exactly min(leads_per_day, U) steps (leads_per_day counts as 10
\* when unset), each PENDING at the entry node with step_index 0, retries 0
\* and execute_after = now, each for a different lead of the campaign that had
\* no step before; afterwards no lead has two steps with step_index 0
C18_DailyAdmission ==
  [][\A w \in Workers :
       (/\ workers[w].task = "start-daily-leads"
        /\ workers[w].pc = "campaign"
        /\ workers'[w] # workers[w]) =>
         LET c == Head(workers[w].cq)
             started == {steps[i].lead_id : i \in 1..Len(steps)}
             U == Cardinality(LeadsOf(c) \ started)
             perDay == IF campaigns[c].leads_per_day = 0 THEN 10 ELSE campaigns[c].leads_per_day
             new == (Len(steps) + 1)..Len(steps')
         IN U > 0 =>
              /\ Cardinality(new) = IF perDay <= U THEN perDay ELSE U
              /\ \A i \in 1..Len(steps) : steps'[i] = steps[i]
              /\ \A i \in new :
                   /\ steps'[i].status = "PENDING"
                   /\ \A e \in Range(Edges) : e.target # steps'[i].id_in_workflow
                   /\ steps'[i].step_index = 0
                   /\ steps'[i].retries = 0
                   /\ steps'[i].execute_after = now \div 1000
                   /\ steps'[i].lead_id \in LeadsOf(c) \ started
                   /\ \A j \in new : j # i => steps'[j].lead_id # steps'[i].lead_id
              /\ \A i, j \in 1..Len(steps') :
                   (i # j /\ steps'[i].step_index = 0 /\ steps'[j].step_index = 0)
                     => steps'[i].lead_id # steps'[j].lead_id]_vars

\* two leads admitted on two runs because leads_per_day = 1
C18_Witness ==
  /\ \E i, j \in 1..Len(steps) :
       /\ i # j
       /\ steps[i].step_index = 0
       /\ steps[j].step_index = 0
       /\ steps[i].lead_id # steps[j].lead_id
       /\ leads[steps[i].lead_id].campaign_id = 1
       /\ leads[steps[j].lead_id].campaign_id = 1
  /\ campaigns[1].leads_per_day = 1

\* C19: a start-daily-leads run marks the campaign COMPLETED exactly when the
\* campaign has no leads or every lead of it already has a workflow step;
\* when an unstarted lead remains the status is left as it is
C19_CompletedWhenAllStarted ==
  [][\A w \in Workers :
       (/\ workers[w].task = "start-daily-leads"
        /\ workers[w].pc = "campaign"
        /\ workers'[w] # workers[w]) =>
         LET c == Head(workers[w].cq)
             everyLeadStarted == \A l \in LeadsOf(c) : \E i \in 1..Len(steps) : steps[i].lead_id = l
         IN /\ IF everyLeadStarted
               THEN campaigns'[c].status = "COMPLETED"
               ELSE campaigns'[c].status = campaigns[c].status /\ campaigns[c].status # "COMPLETED"
            /\ \A d \in Campaigns \ {c} : campaigns'[d] = campaigns[d]]_vars

\* campaign 1 completed by a run that found every one of its leads started
C19_Witness ==
  /\ campaigns[1].status = "COMPLETED"
  /\ LeadsOf(1) # {}
  /\ \A l \in LeadsOf(1) : \E i \in 1..Len(steps) : steps[i].lead_id = l

\* C20: startCampaign fails with an error when the campaign is missing, has no
\* sender account or no prospect list, is deleted, is already IN_PROGRESS or
\* is COMPLETED, and in each of these cases the campaign rows, the lead rows
\* and the workflow steps are left as they were
C20_StartCampaignRefuses ==
  [][probe' # probe =>
       LET c == probe'.campaign
           mustFail == \/ c \notin Campaigns
                       \/ campaigns[c].sender_account = 0
                       \/ campaigns[c].prospect_list = -1
                       \/ campaigns[c].is_deleted
                       \/ campaigns[c].status \in {"IN_PROGRESS", "COMPLETED"}
       IN mustFail =>
            /\ probe'.called
            /\ probe'.error # "none"
            /\ campaigns' = campaigns
            /\ leads' = leads
            /\ steps' = steps]_vars

\* a refused start of a completed campaign while leads and steps exist
C20_Witness ==
  /\ probe.called
  /\ probe.campaign \in Campaigns
  /\ probe.error = "Cannot start a completed campaign"
  /\ campaigns[probe.campaign].status = "COMPLETED"
  /\ Len(leads) > 0
  /\ Len(steps) > 0

\* C21: whenever startCampaign returns without an error, lead rows for the
\* prospect list of the campaign exist and the campaign is IN_PROGRESS
C21_StartedMeansInProgress ==
  (probe.called /\ probe.error = "none") =>
    /\ campaigns[probe.campaign].status = "IN_PROGRESS"
    /\ LeadsOf(probe.campaign) # {}
    /\ Cardinality(LeadsOf(probe.campaign)) >= campaigns[probe.campaign].prospect_list

\* C22: pauseCampaign succeeds exactly from IN_PROGRESS or PAUSED and leaves
\* the campaign PAUSED; resumeCampaign succeeds exactly from PAUSED and leaves
\* it IN_PROGRESS; from any other status each throws and leaves the status as
\* it was; neither changes any other field of a campaign, a lead or a step
C22_PauseResumeTransitions ==
  [][(probe' # probe /\ probe'.op \in {"pause", "resume"}) =>
       LET c == probe'.campaign
           from == IF probe'.op = "pause" THEN {"IN_PROGRESS", "PAUSED"} ELSE {"PAUSED"}
           to == IF probe'.op = "pause" THEN "PAUSED" ELSE "IN_PROGRESS"
       IN /\ IF c \in Campaigns /\ campaigns[c].status \in from
             THEN /\ probe'.error = "none"
                  /\ campaigns' = [campaigns EXCEPT ![c].status = to]
             ELSE /\ probe'.error # "none"
                  /\ campaigns' = campaigns
          /\ leads' = leads
          /\ steps' = steps]_vars

\* a campaign that was paused and has been resumed, its step still in place
C22_Witness ==
  /\ probe.called
  /\ probe.op = "resume"
  /\ probe.error = "none"
  /\ campaigns[probe.campaign].status = "IN_PROGRESS"
  /\ Len(steps) > 0

\* C23: a campaign becomes IN_PROGRESS only through a successful
\* startCampaign (or a resume), hence every campaign that is IN_PROGRESS, once
\* the request that created it has been served, has its prospect list
\* imported as lead rows
C23_InProgressHasLeads ==
  \A c \in Campaigns :
    (/\ campaigns[c].status = "IN_PROGRESS"
     /\ ~(probe.op = "create" /\ probe.campaign = c /\ ~probe.called))
    => LeadsOf(c) # {}

\* the answers of the provider that show a call went out for the step
ProviderAnswers == {"ok", "error", "cannot_resend_yet", "visit_error", "connected", "not_connected"}

\* C24: for a campaign with is_deleted = true no step of any tick starts it,
\* imports leads or creates entry steps for it, touches a FAILED step of its
\* leads, or issues a provider call for a step of its leads
C24_DeletedCampaignsIdle ==
  [][\A c \in Campaigns : campaigns[c].is_deleted =>
       /\ campaigns'[c].status = "IN_PROGRESS" => campaigns[c].status = "IN_PROGRESS"
       /\ {l \in 1..Len(leads') : leads'[l].campaign_id = c} = LeadsOf(c)
       /\ \A i \in 1..Len(steps') :
            (i > Len(steps) /\ leads'[steps'[i].lead_id].campaign_id = c) => lastPlan'.id # 0
       /\ \A i \in 1..Len(steps) :
            (leads[steps[i].lead_id].campaign_id = c /\ steps[i].status = "FAILED")
              => steps'[i] = steps[i]
       /\ ~(/\ lastPlan'.id # 0
            /\ leads[steps[lastPlan'.id].lead_id].campaign_id = c
            /\ lastPlan'.out \in ProviderAnswers)]_vars

\* the answers of the provider that make executeStepAndAddNextStep fail
FailureAnswers == {"visit_error", "error", "cannot_resend_yet"}

\* C25: in a retry-failed-steps tick startDailyLeads takes every FAILED step
\* of the campaign; each step it turns to belongs to a campaign that is
\* IN_PROGRESS, is re-armed (PENDING, execute_after = now) and goes into
\* executeStepAndAddNextStep in the same tick; a retry that fails leaves the
\* step FAILED and the tick goes on with the remaining failed steps
C25_RetryRearmsAndExecutes ==
  [][\A w \in Workers :
       (workers[w].task = "retry-failed-steps" /\ workers'[w] # workers[w]) =>
         /\ (workers[w].pc = "campaign" /\ workers'[w].pc = "load") =>
              workers'[w].sq = findFailedSteps(Head(workers[w].cq))
         /\ workers[w].pc = "load" =>
              LET s == Head(workers[w].sq)
              IN /\ campaigns[leads[s.lead_id].campaign_id].status = "IN_PROGRESS"
                 /\ steps'[s.id].status = "PENDING"
                 /\ steps'[s.id].execute_after = now \div 1000
                 /\ workers'[w].pc = "exec"
                 /\ Head(workers'[w].sq) = s
         /\ (workers[w].pc = "exec" /\ lastPlan'.out \in FailureAnswers) =>
              LET s == Head(workers[w].sq)
              IN /\ steps'[s.id].status = "FAILED"
                 /\ Tail(workers[w].sq) # <<>> =>
                      (workers'[w].pc = "load" /\ workers'[w].sq = Tail(workers[w].sq))]_vars

C27_ReplyMarksMatchedLeads ==
  [][(probe'.op = "reply" /\ probe'.error = "none") =>
       /\ Len(steps') = Len(steps)
       /\ \A i \in 1..Len(steps) :
            IF steps[i].lead_id \in probe'.attendees
            THEN (steps'[i].step_type = "check_message_reply" /\ steps'[i].status = "PENDING")
                   => steps'[i].raw_response.hasReplied
            ELSE steps'[i] = steps[i]]_vars

\* the webhook has handled a request whose attendees match both leads, each
\* with a PENDING check_message_reply step, while a completed step exists too
C27_Witness ==
  /\ probe.op = "reply"
  /\ probe.error = "none"
  /\ probe.attendees = {1, 2}
  /\ \A l \in {1, 2} : \E i \in 1..Len(steps) :
       /\ steps[i].lead_id = l
       /\ steps[i].step_type = "check_message_reply"
       /\ steps[i].status = "PENDING"
       /\ steps[i].raw_response.hasReplied

\* C28: the reply webhook responds {captured: true} to every request, also
\* when the lead lookup, the step lookup or the step update raises
C28_ReplyAlwaysCaptured ==
  (probe.op = "reply" /\ probe.called) => probe.error = "none"

\* C29: when a polling step completes with shouldContinuePolling = true,
\* exactly one step is created: for the same lead, at the same node and of the
\* same type, PENDING, with step_index + 1, retries + 1, execute_after one
\* hour from now and the providerId, nextSteps and pollingStartedAt of the
\* step it follows
C29_ContinuePollingStep ==
  [][(/\ lastPlan'.id # 0
      /\ lastPlan'.step_type \in PollingTypes
      /\ lastPlan'.shouldContinuePolling) =>
       LET prev == steps[lastPlan'.id]
           new == steps'[Len(steps')]
       IN /\ Len(steps') = Len(steps) + 1
          /\ steps'[lastPlan'.id].status = "COMPLETE"
          /\ new.lead_id = prev.lead_id
          /\ new.id_in_workflow = prev.id_in_workflow
          /\ new.step_type = prev.step_type
          /\ new.status = "PENDING"
          /\ new.step_index = prev.step_index + 1
          /\ new.retries = prev.retries + 1
          /\ new.execute_after = (now + 60 * 60 * 1000) \div 1000
          /\ new.raw_response.providerId = prev.raw_response.providerId
          /\ new.raw_response.nextSteps = prev.raw_response.nextSteps
          /\ new.raw_response.pollingStartedAt = prev.raw_response.pollingStartedAt]_vars

\* a check_message_reply step was run one hour after the message went out,
\* found no reply within the time limit, and its successor is the same poll
\* one hour later
C29_Witness ==
  /\ lastPlan.id # 0
  /\ lastPlan.step_type = "check_message_reply"
  /\ lastPlan.shouldContinuePolling
  /\ steps[lastPlan.id].status = "COMPLETE"
  /\ steps[Len(steps)].step_type = "check_message_reply"
  /\ steps[Len(steps)].retries = lastPlan.retries + 1
  /\ steps[Len(steps)].status = "PENDING"
  /\ steps[Len(steps)].execute_after = (now + 60 * 60 * 1000) \div 1000

\* the outgoing edges whose target is a node of the workflow other than the
\* addStep placeholder
RetainedEdges(es) ==
  SelectSeq(es, LAMBDA e : \E i \in 1..Len(Nodes) : Nodes[i].id = e.target /\ Nodes[i].type # "addStep")

\* C30: when send_connection_request or send_followup has completed
\* successfully at a node with an outgoing edge to a retained node, exactly
\* one step is created: the poll of that type at the same node, PENDING, with
\* step_index + 1, execute_after one hour from now and nextSteps listing every
\* retained outgoing edge with its target, conditionalType and delayMs; with
\* no such edge no step is created
C30_SendCreatesOnePoll ==
  (probe.planned /\ probe.op \in {"send_connection_request", "send_followup"}) =>
    LET retained == RetainedEdges(probe.edges)
        new == probe.created[1]
    IN IF retained = << >> THEN probe.created = << >>
       ELSE /\ Len(probe.created) = 1
            /\ new.step_type = IF probe.op = "send_connection_request"
                               THEN "check_connection_status" ELSE "check_message_reply"
            /\ new.id_in_workflow = NodeOf(probe.op)
            /\ new.lead_id = 1
            /\ new.status = "PENDING"
            /\ new.step_index = 1
            /\ new.execute_after = (probe.t + 60 * 60 * 1000) \div 1000
            /\ Len(new.raw_response.nextSteps) = Len(retained)
            /\ \A i \in 1..Len(retained) :
                 /\ new.raw_response.nextSteps[i].nodeId = retained[i].target
                 /\ new.raw_response.nextSteps[i].edgeId = retained[i].id
                 /\ new.raw_response.nextSteps[i].conditionalType =
                      (IF ~retained[i].isConditionalPath THEN "none"
                       ELSE IF retained[i].isPositive THEN "accepted" ELSE "not_accepted")
                 /\ new.raw_response.nextSteps[i].delayMs =
                      (IF retained[i].delayData = NoDelay THEN 0 ELSE 60 * 60 * 1000)

\* a connection request went out at a node with an accepted and a
\* not_accepted branch and one poll was created that lists both
C30_Witness ==
  /\ probe.planned
  /\ probe.op = "send_connection_request"
  /\ Len(probe.created) = 1
  /\ Len(probe.created[1].raw_response.nextSteps) = 2
  /\ probe.created[1].raw_response.nextSteps[1].conditionalType = "accepted"
  /\ probe.created[1].raw_response.nextSteps[2].conditionalType = "not_accepted"

\* the retained nodes of the workflow under examination, in node order
EntryRetained == SelectSeq(probe.wfNodes, LAMBDA n : n.type # "addStep")

\* the retained nodes that are the target of no edge from another retained node
EntryNoIncomingFromOther ==
  SelectSeq(EntryRetained,
            LAMBDA n : ~\E e \in probe.wfEdges :
                          /\ e.target = n.id
                          /\ e.source # n.id
                          /\ \E m \in Range(EntryRetained) : m.id = e.source)

\* the retained nodes that are the target of no edge from a retained node,
\* the node itself included
EntryNoIncoming ==
  SelectSeq(EntryRetained,
            LAMBDA n : ~\E e \in probe.wfEdges :
                          /\ e.target = n.id
                          /\ \E m \in Range(EntryRetained) : m.id = e.source)

\* C31 as stated: for a workflow with a non-addStep node the entry is the
\* first non-addStep node without an incoming edge from another retained node,
\* and the first non-addStep node when every retained node has an incoming
\* edge; it is never an addStep node
C31_EntryNode ==
  (probe.op = "entry" /\ probe.called /\ EntryRetained # << >>) =>
    /\ Len(probe.entry) = 1
    /\ probe.entry[1].type # "addStep"
    /\ probe.entry[1] = IF EntryNoIncomingFromOther # << >> THEN EntryNoIncomingFromOther[1]
                        ELSE EntryRetained[1]

\* C31 amended: an edge from a retained node to itself counts as incoming
C31_EntryNodeAmended ==
  (probe.op = "entry" /\ probe.called /\ EntryRetained # << >>) =>
    /\ Len(probe.entry) = 1
    /\ probe.entry[1].type # "addStep"
    /\ probe.entry[1] = IF EntryNoIncoming # << >> THEN EntryNoIncoming[1]
                        ELSE EntryRetained[1]

\* the entry was found behind a placeholder and a node whose only incoming
\* edge is the one from itself
C31_Witness ==
  /\ probe.op = "entry"
  /\ probe.called
  /\ Len(probe.wfNodes) = 3
  /\ probe.wfNodes[1].type = "addStep"
  /\ probe.wfEdges = {[source |-> 2, target |-> 2], [source |-> 1, target |-> 3]}
  /\ probe.entry = <<probe.wfNodes[3]>>

\* the ids of the addStep placeholders of the campaign's workflow
AddStepIds == {Nodes[i].id : i \in {j \in 1..Len(Nodes) : Nodes[j].type = "addStep"}}

\* C32: no step of the ledger sits at an addStep placeholder, and no polling
\* step lists a placeholder among its nextSteps
C32_NoStepAtAddStep ==
  \A i \in 1..Len(steps) :
    /\ steps[i].id_in_workflow \notin AddStepIds
    /\ \A k \in 1..Len(steps[i].raw_response.nextSteps) :
         steps[i].raw_response.nextSteps[k].nodeId \notin AddStepIds

\* the withdraw_request step, whose only outgoing edge leads to the
\* placeholder, has completed and the lead has no step after it
C32_Witness ==
  \E i \in 1..Len(steps) :
    /\ steps[i].step_type = "withdraw_request"
    /\ steps[i].status = "COMPLETE"
    /\ \E e \in Range(Edges) : e.source = steps[i].id_in_workflow /\ e.target \in AddStepIds
    /\ \A j \in 1..Len(steps) : steps[j].lead_id = steps[i].lead_id => steps[j].step_index <= steps[i].step_index

\* C33: a polling step that waits to be run, also after it failed and was
\* re-armed, carries the providerId, the nextSteps of its node and the
\* pollingStartedAt it was created with
C33_PollingContextKept ==
  \A i \in 1..Len(steps) :
    (steps[i].step_type \in PollingTypes /\ steps[i].status = "PENDING") =>
      /\ steps[i].raw_response.providerId
      /\ steps[i].raw_response.pollingStartedAt # -1
      /\ Len(steps[i].raw_response.nextSteps) = Len(getNextWorkflowSteps(steps[i].id_in_workflow))
      /\ \A k \in 1..Len(steps[i].raw_response.nextSteps) :
           steps[i].raw_response.nextSteps[k].nodeId =
             getNextWorkflowSteps(steps[i].id_in_workflow)[k].nodeId

\* C34: a request to the reply webhook leaves providerId, nextSteps and
\* pollingStartedAt of every step as they were, also when its attendees match
\* the steps of several leads
C34_ReplyKeepsPollingContext ==
  [][(probe'.op = "reply" /\ probe'.error = "none") =>
       /\ Len(steps') = Len(steps)
       /\ \A i \in 1..Len(steps) :
            /\ steps'[i].raw_response.providerId = steps[i].raw_response.providerId
            /\ steps'[i].raw_response.nextSteps = steps[i].raw_response.nextSteps
            /\ steps'[i].raw_response.pollingStartedAt = steps[i].raw_response.pollingStartedAt]_vars

\* C35: the execute_after of a step that stays PENDING never decreases, also
\* when the sender-wide 24 hour deferral meets a send_connection_request step
\* that was already scheduled later than now + 24h
C35_DeferralNeverEarlier ==
  [][\A i \in 1..Len(steps) :
       steps[i].status = "PENDING" /\ steps'[i].status = "PENDING"
       => steps'[i].execute_after >= steps[i].execute_after]_vars

\* C36: after any sequence of startCampaign, pauseCampaign and resumeCampaign
\* calls, each prospect of a campaign's list has at most one lead row in that
\* campaign. An import adds one row for each prospect of the list, so a
\* prospect has two rows as soon as the campaign has more rows than its list
\* has prospects
C36_OneLeadPerProspect ==
  \A c \in Campaigns :
    LET rows == {i \in 1..Len(leads) : leads[i].campaign_id = c}
    IN rows # {} => Cardinality(rows) <= campaigns[c].prospect_list

\* step i exists and has the given status
StepHasStatus(i, status) ==
  IF i <= Len(steps) THEN steps[i].status = status ELSE FALSE

\* step i exists and belongs to a campaign that is neither deleted nor PAUSED
StepOfLiveCampaign(i) ==
  IF i <= Len(steps)
  THEN /\ ~campaigns[leads[steps[i].lead_id].campaign_id].is_deleted
       /\ campaigns[leads[steps[i].lead_id].campaign_id].status # "PAUSED"
  ELSE FALSE

\* C37: under fair firing of retry-failed-steps, every FAILED step of a lead
\* whose campaign is neither deleted nor PAUSED is eventually PENDING again,
\* also when start-daily-leads has marked the campaign COMPLETED
C37_FailedStepRearmed ==
  \A i \in 1..MaxSteps :
    (StepHasStatus(i, "FAILED") /\ StepOfLiveCampaign(i)) ~> StepHasStatus(i, "PENDING")

\* C38: a campaign that is PAUSED is not set to COMPLETED by a tick that was
\* already running on it, and the status of a COMPLETED campaign never changes
C38_StatusWritesKeepLifecycle ==
  [][\A c \in Campaigns :
       /\ campaigns[c].status = "PAUSED" => campaigns'[c].status # "COMPLETED"
       /\ campaigns[c].status = "COMPLETED" => campaigns'[c].status = "COMPLETED"]_vars

\* C39: the steps created on completing a send_connection_request step are
\* check_connection_status polling steps only, whatever the provider
\* returned, so that no such step is followed by steps at both the accepted
\* and the not_accepted target of its node
C39_RequestFollowedByPollOnly ==
  \A i \in 1..Len(steps) :
    steps[i].step_type = "send_connection_request" /\ steps[i].status = "COMPLETE"
    => LET created == {j \in 1..Len(steps) : steps[j].parent = i}
       IN /\ \A j \in created : steps[j].step_type = "check_connection_status"
          /\ ~\E j, k \in created :
                /\ steps[j].id_in_workflow = 2
                /\ steps[k].id_in_workflow = 3

\* the timeout of a polling step: delayMs of the accepted branch stored with
\* it, 0 when there is none
TimeoutOf(step) ==
  LET acceptedPath == FirstWith(step.raw_response.nextSteps, "accepted")
  IN IF acceptedPath = <<>> THEN 0 ELSE acceptedPath[1].delayMs

\* the time the chain of a polling step started
StartedAt(step) ==
  IF step.raw_response.pollingStartedAt # -1 THEN step.raw_response.pollingStartedAt
  ELSE step.created_at

\* the lead has a PENDING polling step
LeadPolling ==
  \E i \in 1..Len(steps) : steps[i].status = "PENDING" /\ steps[i].step_type \in PollingTypes

\* a poll executed later than its timeout after the chain started ends the
\* chain: shouldContinuePolling is false and no polling step is created
TimedOutPollEndsChain ==
  [][\A i \in 1..Len(steps) :
       (/\ steps[i].step_type \in PollingTypes
        /\ steps[i].status = "PENDING"
        /\ steps'[i].status = "COMPLETE"
        /\ now - StartedAt(steps[i]) > TimeoutOf(steps[i]))
       => /\ lastPlan'.id = i
          /\ ~lastPlan'.shouldContinuePolling
          /\ \A j \in (Len(steps) + 1)..Len(steps') : steps'[j].step_type \notin PollingTypes]_vars

\* C40: every polling chain is finite: the first poll executed later than the
\* timeout (delayMs of the accepted branch, 0 without one) after
\* pollingStartedAt sets shouldContinuePolling = false and creates no polling
\* step, and under fair firing of process-daily-leads with succeeding provider
\* calls a lead that is polled eventually has no PENDING polling step
C40_PollingChainFinite ==
  /\ TimedOutPollEndsChain
  /\ LeadPolling ~> ~LeadPolling

\* a chain that went on once and then timed out: the second poll has ended it
C40_Witness ==
  /\ lastPlan.step_type \in PollingTypes
  /\ lastPlan.retries >= 1
  /\ lastPlan.hasTimedOut
  /\ ~lastPlan.isSuccess
  /\ ~LeadPolling

====
